---- MODULE Spec2Model ----
(***************************************************************************)
(* Model of the file-event pipeline of snips' generate command:            *)
(* FSEventHandler (cmd/snips/generatecmd/eventhandler.go) driven by the    *)
(* worker pool of Generate.Run (cmd/snips/generatecmd/cmd.go).             *)
(*                                                                         *)
(* A path is a sequence of one-character strings, so that the path         *)
(* predicates (strings.LastIndex, strings.HasSuffix, string concatenation) *)
(* are computed as the code computes them.                                 *)
(***************************************************************************)
EXTENDS Integers, Sequences, FiniteSets, TLC

\* ------------------------------------------------------------------ bounds
\* Number of events handed to HandleEvent in one behaviour.
MaxCalls == 2
\* Number of changes the environment makes to the input files.
MaxEdits == 1

\* ------------------------------------------------------------- constants
\* len(".code.") as written in ContainsDotCodeDot: index < len(name)-6
DotCodeDotLen == 6

\* ------------------------------------------------------------------ paths
DotCodeDot == <<".", "c", "o", "d", "e", ".">>
TxtSuffix == <<"_", "c", "o", "d", "e", ".", "t", "x", "t">>
TemplGoSuffix == <<"_", "t", "e", "m", "p", "l", ".", "g", "o">>

\* "a.code.go": an input file
InputA == <<"a">> \o DotCodeDot \o <<"g", "o">>
\* "a.go": no marker
OtherFile == <<"a", ".", "g", "o">>
\* "a.code.": the marker with an empty extension
EdgeFile == <<"a">> \o DotCodeDot
\* "_code.txt": the shared text artifact, as generate names it
TxtFile == TxtSuffix

EventNames == {InputA, OtherFile, EdgeFile, TxtFile}

\* fsnotify.Op is a bit set; Has tests one bit.
OpSets == {{"Create"}, {"Write"}, {"Remove"}}
Has(op, bit) == bit \in op
Event(n, op) == [name |-> n, op |-> op]
Events == {Event(n, op) : n \in EventNames, op \in OpSets}

\* strings.HasSuffix
HasSuffix(s, suffix) ==
    /\ Len(s) >= Len(suffix)
    /\ SubSeq(s, Len(s) - Len(suffix) + 1, Len(s)) = suffix

\* strings.LastIndex (0-based, -1 when absent)
LastIndex(s, sub) ==
    LET hits == {i \in 0..(Len(s) - Len(sub)) : SubSeq(s, i + 1, i + Len(sub)) = sub}
    IN IF hits = {} THEN -1 ELSE CHOOSE i \in hits : \A j \in hits : j <= i

\* generatecmd.IsCodeFile
IsCodeFile(name) ==
    LET index == LastIndex(name, DotCodeDot)
    IN index # -1 /\ index < Len(name) - 6

\* Variant: the marker looked up with strings.Index, its first occurrence.
ContainsDotCodeDotFirst(name) ==
    LET hits == {i \in 0..(Len(name) - DotCodeDotLen) :
                    SubSeq(name, i + 1, i + DotCodeDotLen) = DotCodeDot}
        index == IF hits = {} THEN -1 ELSE CHOOSE i \in hits : \A j \in hits : i <= j
    IN index # -1 /\ index < Len(name) - DotCodeDotLen
\* snips.ContainsDotCodeDot (and IsCodeFile, the same body)
ContainsDotCodeDot(name) ==
    LET index == LastIndex(name, DotCodeDot)
    IN index # -1 /\ index < Len(name) - DotCodeDotLen

\* targetFileName := fileName + "_templ.go"
TargetFileName(fileName) == fileName \o TemplGoSuffix

\* The input files of the tree: the event names HandleEvent would stat.
InputFiles == {n \in EventNames : ContainsDotCodeDot(n) /\ ~HasSuffix(n, TxtSuffix)}
ArtifactKeys == {TargetFileName(n) : n \in InputFiles} \cup {TxtFile}

\* --------------------------------------------------------------- renderer
\* The external transform (generator.Generate followed by format.Source),
\* a fixed function of the source bytes: output bytes, extracted literals,
\* or a failure.
Contents == {"c1", "c2", "bad"}
NoBytes == "none"
Render(content) ==
    CASE content = "c1" -> [ok |-> TRUE, out |-> "o1", literals |-> ""]
      [] content = "c2" -> [ok |-> TRUE, out |-> "o2", literals |-> "t2"]
      [] OTHER -> [ok |-> FALSE, out |-> NoBytes, literals |-> ""]

\* sha256.Sum256, collision free on the byte strings of the model; the zero
\* value of [sha256.Size]byte is what a map read of a missing key yields.
ZeroHash == <<>>
Sum256(bytes) == <<"sha256", bytes>>

\* time.Time: the zero value is what a map read of a missing key yields.
ZeroTime == 0
\* Only the order of modification times matters: e edits of a file produce at
\* most e + 1 distinct times.
Times(e) == 1..(e + 1)
\* Variant: !currentModTime.Before(previousModTime), an equal time is accepted.
AfterOrEqual(t, u) == t >= u
\* Variant: currentModTime != previousModTime, any other time is accepted.
AfterOrDifferent(t, u) == t # u
After(t, u) == t > u

\* Go map read: the zero value for a missing key.
Lookup(m, k, zero) == IF k \in DOMAIN m THEN m[k] ELSE zero
\* Go map write.
Store(m, k, v) == [x \in DOMAIN m \cup {k} |-> IF x = k THEN v ELSE m[x]]

\* ----------------------------------------------------------------- errors
NoErr == [msg |-> "nil"]
ErrOpen(fileName) == [msg |-> "failed to open", path |-> fileName]
ErrGenerate(fileName) == [msg |-> "generation error", path |-> fileName]
ErrWriteTarget(key) == [msg |-> "failed to write target file", path |-> key]
ErrWriteText(key) == [msg |-> "failed to write string literal file", path |-> key]
\* fmt.Errorf("failed to generate code for %q: %w", event.Name, err)
WrapGenerate(fileName, cause) ==
    [msg |-> "failed to generate code for", path |-> fileName, cause |-> cause]

\* ------------------------------------------------------------------ state
Workers == {1, 2}
Free == 0
NoFile == "absent"
NoEvent == [name |-> <<>>, op |-> {}]
NoCall == [how |-> "none"]
NoInput == [exists |-> FALSE, mtime |-> 0, content |-> "none"]

VARIABLES
    limit,                  \* the bounds of this behaviour: [calls, edits]
    watched,                \* the events the walker and the watcher can report
    workerCount,            \* Args.WorkerCount: capacity of sem
    devMode,                \* FSEventHandler.DevMode
    files,                  \* the files of the tree on disk
    artifacts,              \* the generated files on disk
    fileNameToLastModTime,  \* FSEventHandler.fileNameToLastModTime
    fileNameToError,        \* FSEventHandler.fileNameToError
    hashes,                 \* FSEventHandler.hashes
    mutex,                  \* holders of the handler's three mutexes
    pc,                     \* position of each worker goroutine
    ev,                     \* the event each worker handles
    loc,                    \* locals of HandleEvent and its callees
    res,                    \* (goUpdated, textUpdated, err) of HandleEvent
    calls,                  \* events dispatched so far
    edits,                  \* environment changes so far
    lastWritten,            \* per artifact key, the bytes of the last two writer calls
    rendered,               \* the (path, modtime) pairs the renderer was invoked for
    lastCall                \* per input, the last returned call that passed the modtime guard

\* Generate.Run as a whole: the push, dispatch, worker, post-generation and
\* error-reading goroutines around the handler.
VARIABLES
    args,                   \* Args.FileName and Args.FileWriter
    watch,                  \* Args.Watch
    ctx,                    \* the context of Run: "live" or "done"
    fseh,                   \* the handler the variable fseh points to: 1, then 2
    handlers,               \* the stores and DevMode of each handler constructed
    push,                   \* the push goroutine: position, progress of its walk
    watcher,                \* the recursive watcher and its undelivered notifications
    loop,                   \* the dispatch loop: position, the event it received
    eventsWG,               \* counter of eventsWG
    sem,                    \* number of slots of sem that are taken
    goroutines,             \* the worker goroutines that hold a slot of sem
    exiting,                \* workers that released their slot and have not run eventsWG.Done
    errorCount,             \* errorCount (atomic.Int64)
    postGeneration,         \* contents of the channel postGeneration
    coord,                  \* the post-generation goroutine: position, timer, locals
    main,                   \* the error-reading loop of Run and Run's result
    log                     \* history of the run: events sent and handled, settles, failures

run == <<args, watch, ctx, fseh, handlers, push, watcher, loop, eventsWG, sem, goroutines,
         exiting, errorCount, postGeneration, coord, main, log>>

vars == <<limit, watched, workerCount, devMode, files, artifacts, fileNameToLastModTime,
          fileNameToError, hashes, mutex, pc, ev, loc, res, calls, edits,
          lastWritten, rendered, lastCall, run>>

\* What no step of a handler call changes: the arguments and the goroutines
\* of Run around the call.
config == <<limit, watched, workerCount, devMode, run>>
stores == <<fileNameToLastModTime, fileNameToError, hashes>>
disk == <<files, artifacts>>
ghosts == <<lastWritten, rendered, lastCall>>

NoLoc ==
    [how |-> "none", cur |-> ZeroTime, prev |-> ZeroTime, out |-> NoBytes,
     literals |-> "", phase |-> "none", hash |-> ZeroHash, lastHash |-> ZeroHash,
     codeLastHash |-> ZeroHash, codeUpdated |-> FALSE, codeWrites |-> 0,
     goUpdated |-> FALSE, textUpdated |-> FALSE, err |-> NoErr,
     hasError |-> FALSE, previouslyHadError |-> FALSE, wrote |-> {}]

NoRes == [goUpdated |-> FALSE, textUpdated |-> FALSE, err |-> NoErr]
Result(g, t, e) == [goUpdated |-> g, textUpdated |-> t, err |-> e]

\* The goroutines of Run before Run has started them.
NoRunEvent == [name |-> <<>>, op |-> {}, src |-> "none", id |-> 0]
NoGoroutine == [pc |-> "idle", event |-> NoRunEvent, res |-> NoRes]
NoLog == [sent |-> 0, handled |-> <<>>, early |-> 0, late |-> 0, failedNames |-> {},
          settles |-> 0, walks |-> 0, settlesAtWalk |-> 0, unsettledAtWalk |-> FALSE,
          fatal |-> NoErr, rewritten |-> {}, direct |-> <<>>]
RunOff ==
    /\ args = [FileName |-> <<>>, FileWriter |-> "FileWriter"]
    /\ watch = FALSE
    /\ ctx = "live"
    /\ fseh = 1
    /\ handlers = <<>>
    /\ push = [pc |-> "off", pos |-> 0, err |-> NoErr]
    /\ watcher = [state |-> "none", pending |-> {}]
    /\ loop = [pc |-> "off", event |-> NoRunEvent]
    /\ eventsWG = 0
    /\ sem = 0
    /\ goroutines = [w \in Workers |-> NoGoroutine]
    /\ exiting = 0
    /\ errorCount = 0
    /\ postGeneration = <<>>
    /\ coord = [pc |-> "off", timer |-> "parked", goUpdated |-> FALSE,
                textUpdated |-> FALSE, updates |-> 0]
    /\ main = [pc |-> "off", err |-> NoErr]
    /\ log = NoLog

InitHandler ==
    /\ files \in {f \in [EventNames -> {[exists |-> TRUE, mtime |-> 1, content |-> c] :
                                             c \in Contents}] :
                    \A n \in EventNames \ InputFiles : f[n].content = "c1"}
    /\ artifacts = [k \in ArtifactKeys |-> NoFile]
    /\ fileNameToLastModTime = <<>>
    /\ fileNameToError = {}
    /\ hashes = <<>>
    /\ mutex = [modTime |-> Free, errors |-> Free, hashes |-> Free]
    /\ pc = [w \in Workers |-> "idle"]
    /\ ev = [w \in Workers |-> NoEvent]
    /\ loc = [w \in Workers |-> NoLoc]
    /\ res = [w \in Workers |-> NoRes]
    /\ calls = 0
    /\ edits = 0
    /\ lastWritten = [k \in ArtifactKeys |-> [prev |-> NoBytes, last |-> NoBytes]]
    /\ rendered = {}
    /\ lastCall = [n \in InputFiles |-> NoCall]
    /\ RunOff

\* One worker at a time (WorkerCount = 1), every kind of path in the tree.
InitSeq ==
    /\ limit = [calls |-> MaxCalls + 1, edits |-> MaxEdits + 1]
    /\ watched = Events
    /\ workerCount = 1
    /\ devMode \in BOOLEAN
    /\ InitHandler

\* Concurrent workers in watch mode, the watcher reporting writes of the
\* input files.
InitConc ==
    /\ limit = [calls |-> MaxCalls, edits |-> MaxEdits]
    /\ watched = {Event(n, {"Write"}) : n \in InputFiles}
    /\ workerCount = Cardinality(Workers)
    /\ devMode = TRUE
    /\ InitHandler

Init == InitSeq \/ InitConc

\* Variant: Lock() that never waits.
CanLockAlways(holder) == TRUE
\* sync.Mutex.Lock proceeds only when the mutex is not held.
CanLock(holder) == holder = Free

\* Variant: UpsertHash without the comparison.
HashChangedAlways(lastHash, hash) == TRUE
\* UpsertHash: if lastHash == hash { return false }
HashChanged(lastHash, hash) == lastHash # hash

\* Variant: SetError without the delete.
RegistryAfterNoDelete(registry, fileName, hasError) ==
    registry \cup (IF hasError THEN {fileName} ELSE {})
\* SetError: delete(h.fileNameToError, fileName); if hasError { insert }
RegistryAfter(registry, fileName, hasError) ==
    (registry \ {fileName}) \cup (IF hasError THEN {fileName} ELSE {})

\* The key UpsertHash is called with in the current phase of generate.
Key(w) == IF loc[w].phase = "code" THEN TargetFileName(ev[w].name) ELSE TxtFile

\* ---------------------------------------------------------------- actions
Active == {w \in Workers : pc[w] # "idle"}

\* Variant: HandleEvent without the relevance filter.
HandleEventEntryNoFilter(w, e) ==
    /\ pc' = [pc EXCEPT ![w] = "stat"]
    /\ UNCHANGED <<loc, res, artifacts>>

\* os.Remove can succeed only on a file that exists.
CanRemove(name) == name \in DOMAIN artifacts /\ artifacts[name] # NoFile
\* Variant: a failed os.Remove returned to the caller.
TxtRemoveFailureIsError(name) ==
    Result(FALSE, FALSE, [msg |-> "failed to remove", path |-> name])
\* if err = os.Remove(event.Name); err != nil { Warn; return false, false, nil }
TxtRemoveFailure(name) == Result(FALSE, FALSE, NoErr)

\* HandleEvent up to the call of UpsertLastModTime, for worker w and event e:
\* the _code.txt branch and the relevance filter.
HandleEventEntry(w, e) ==
    IF ~Has(e.op, "Remove") /\ HasSuffix(e.name, TxtSuffix)
    THEN IF devMode
         THEN /\ pc' = [pc EXCEPT ![w] = "done"]
              /\ loc' = [loc EXCEPT ![w].how = "txtdev"]
              /\ res' = [res EXCEPT ![w] = Result(FALSE, TRUE, NoErr)]
              /\ UNCHANGED artifacts
         ELSE \* os.Remove(event.Name): it fails when the file does not
              \* exist and can fail when it does
              \E removed \in {b \in BOOLEAN : b => CanRemove(e.name)} :
                  /\ pc' = [pc EXCEPT ![w] = "done"]
                  /\ loc' = [loc EXCEPT ![w].how =
                                 IF removed THEN "txtprod" ELSE "txtprodfailed"]
                  /\ res' = [res EXCEPT ![w] =
                                 IF removed THEN Result(FALSE, FALSE, NoErr)
                                 ELSE TxtRemoveFailure(e.name)]
                  /\ artifacts' = IF removed
                                  THEN [artifacts EXCEPT ![e.name] = NoFile]
                                  ELSE artifacts
    ELSE IF ~ContainsDotCodeDot(e.name)
         THEN /\ pc' = [pc EXCEPT ![w] = "done"]
              /\ loc' = [loc EXCEPT ![w].how = "irrelevant"]
              /\ res' = [res EXCEPT ![w] = Result(FALSE, FALSE, NoErr)]
              /\ UNCHANGED artifacts
         ELSE /\ pc' = [pc EXCEPT ![w] = "stat"]
              /\ UNCHANGED <<loc, res, artifacts>>

\* Generate.Run, dispatch loop: sem <- struct{}{}; go func(event) {...}, and
\* the worker's call of fseh.HandleEvent(ctx, event) up to its first access
\* to shared state.
Dispatch(w, e) ==
    /\ pc[w] = "idle"
    /\ \A v \in Workers : v < w => pc[v] # "idle"
    /\ Cardinality(Active) < workerCount
    /\ calls < limit.calls
    /\ e \in watched
    /\ calls' = calls + 1
    /\ ev' = [ev EXCEPT ![w] = e]
    /\ HandleEventEntry(w, e)
    /\ UNCHANGED <<config, files, stores, mutex, edits, ghosts>>

\* Variant: a failed stat reported as a generation error.
StatFailureIsError(w) ==
    /\ pc[w] = "stat"
    /\ IF ~files[ev[w].name].exists
       THEN /\ pc' = [pc EXCEPT ![w] = "setError"]
            /\ loc' = [loc EXCEPT ![w].how = "statfail", ![w].hasError = TRUE,
                                  ![w].err = ErrOpen(ev[w].name)]
       ELSE /\ pc' = [pc EXCEPT ![w] = "modLock"]
            /\ loc' = [loc EXCEPT ![w].cur = files[ev[w].name].mtime]
    /\ UNCHANGED <<config, disk, stores, mutex, ev, res, calls, edits, ghosts>>

\* Variant: a handler that deletes the generated artifact of an input it can
\* no longer stat.
StatFailureRemovesArtifact(w) ==
    /\ pc[w] = "stat"
    /\ IF ~files[ev[w].name].exists
       THEN /\ pc' = [pc EXCEPT ![w] = "done"]
            /\ loc' = [loc EXCEPT ![w].how = "statfail"]
            /\ res' = [res EXCEPT ![w] = Result(FALSE, FALSE, NoErr)]
            /\ artifacts' = [artifacts EXCEPT ![TargetFileName(ev[w].name)] = NoFile]
       ELSE /\ pc' = [pc EXCEPT ![w] = "modLock"]
            /\ loc' = [loc EXCEPT ![w].cur = files[ev[w].name].mtime]
            /\ UNCHANGED <<res, artifacts>>
    /\ UNCHANGED <<config, files, stores, mutex, ev, calls, edits, ghosts>>

\* UpsertLastModTime: os.Stat(fileName)
Stat(w) ==
    /\ pc[w] = "stat"
    /\ IF ~files[ev[w].name].exists
       THEN /\ pc' = [pc EXCEPT ![w] = "done"]
            /\ loc' = [loc EXCEPT ![w].how = "statfail"]
            /\ res' = [res EXCEPT ![w] = Result(FALSE, FALSE, NoErr)]
       ELSE /\ pc' = [pc EXCEPT ![w] = "modLock"]
            /\ loc' = [loc EXCEPT ![w].cur = files[ev[w].name].mtime]
            /\ UNCHANGED res
    /\ UNCHANGED <<config, disk, stores, mutex, ev, calls, edits, ghosts>>

\* UpsertLastModTime: Lock(); previousModTime := h.fileNameToLastModTime[fileName]
ModLock(w) ==
    /\ pc[w] = "modLock"
    /\ CanLock(mutex.modTime)
    /\ mutex' = [mutex EXCEPT !.modTime = w]
    /\ loc' = [loc EXCEPT ![w].prev = Lookup(fileNameToLastModTime, ev[w].name, ZeroTime)]
    /\ pc' = [pc EXCEPT ![w] = "modSet"]
    /\ UNCHANGED <<config, disk, stores, ev, res, calls, edits, ghosts>>

\* Variant: a path in the error registry is not attempted again.
SkipsEventInRegistry(w, updatedModTime) ==
    ~updatedModTime \/ ev[w].name \in fileNameToError
\* if !updatedModTime { return false, false, nil }
SkipsEvent(w, updatedModTime) == ~updatedModTime

\* UpsertLastModTime: the comparison, the store and the deferred Unlock();
\* HandleEvent returns when the time was not updated.
ModSet(w) ==
    /\ pc[w] = "modSet"
    /\ mutex' = [mutex EXCEPT !.modTime = Free]
    /\ IF SkipsEvent(w, After(loc[w].cur, loc[w].prev))
       THEN /\ pc' = [pc EXCEPT ![w] = "done"]
            /\ loc' = [loc EXCEPT ![w].how = "stale", ![w].prev = ZeroTime]
            /\ res' = [res EXCEPT ![w] = Result(FALSE, FALSE, NoErr)]
            /\ UNCHANGED fileNameToLastModTime
       ELSE /\ fileNameToLastModTime' = Store(fileNameToLastModTime, ev[w].name, loc[w].cur)
            /\ pc' = [pc EXCEPT ![w] = "generate"]
            /\ loc' = [loc EXCEPT ![w].how = "passed", ![w].prev = ZeroTime]
            /\ UNCHANGED res
    /\ UNCHANGED <<config, disk, fileNameToError, hashes, ev, calls, edits, ghosts>>

\* generate: from() (cannot fail: strings.Split yields at least one part),
\* os.ReadFile, generator.Generate and format.Source, up to the digest of the
\* output.
GenerateRender(w) ==
    /\ pc[w] = "generate"
    /\ LET f == files[ev[w].name]
           r == Render(f.content)
       IN IF ~f.exists
          THEN /\ loc' = [loc EXCEPT ![w].err = ErrOpen(ev[w].name), ![w].hasError = TRUE]
               /\ pc' = [pc EXCEPT ![w] = "setError"]
               /\ UNCHANGED rendered
          ELSE /\ rendered' = rendered \cup {<<ev[w].name, loc[w].cur>>}
               /\ IF ~r.ok
                  THEN /\ loc' = [loc EXCEPT ![w].err = ErrGenerate(ev[w].name),
                                             ![w].hasError = TRUE, ![w].how = "rendered"]
                       /\ pc' = [pc EXCEPT ![w] = "setError"]
                  ELSE /\ loc' = [loc EXCEPT ![w].out = r.out, ![w].literals = r.literals,
                                             ![w].how = "rendered", ![w].phase = "code",
                                             ![w].hash = Sum256(r.out)]
                       /\ pc' = [pc EXCEPT ![w] = "hashLock"]
    /\ UNCHANGED <<config, disk, stores, mutex, ev, res, calls, edits,
                   lastWritten, lastCall>>

\* Variant: UpsertHash reading the map without taking hashesMutex.
HashLockNoMutex(w) ==
    /\ pc[w] = "hashLock"
    /\ mutex' = [mutex EXCEPT !.hashes = w]
    /\ loc' = [loc EXCEPT ![w].lastHash = Lookup(hashes, Key(w), ZeroHash)]
    /\ pc' = [pc EXCEPT ![w] = "hashSet"]
    /\ UNCHANGED <<config, disk, stores, ev, res, calls, edits, ghosts>>

\* UpsertHash: Lock(); lastHash := h.hashes[fileName]
HashLock(w) ==
    /\ pc[w] = "hashLock"
    /\ CanLock(mutex.hashes)
    /\ mutex' = [mutex EXCEPT !.hashes = w]
    /\ loc' = [loc EXCEPT ![w].lastHash = Lookup(hashes, Key(w), ZeroHash)]
    /\ pc' = [pc EXCEPT ![w] = "hashSet"]
    /\ UNCHANGED <<config, disk, stores, ev, res, calls, edits, ghosts>>

\* What generate does once the code artifact is settled (unchanged, or
\* written): the text artifact when there are literals, else success.
AfterCode(l) ==
    IF l.literals # ""
    THEN [l EXCEPT !.phase = "txt", !.hash = Sum256(l.literals), !.lastHash = ZeroHash]
    ELSE [l EXCEPT !.phase = "none", !.hash = ZeroHash, !.lastHash = ZeroHash]

NextPc(l) == IF l.phase = "txt" THEN "hashLock" ELSE "setError"

\* UpsertHash: the comparison, the store and the deferred Unlock(); generate
\* goes on to the write when the hash was updated.
HashSet(w) ==
    /\ pc[w] = "hashSet"
    /\ mutex' = [mutex EXCEPT !.hashes = Free]
    /\ IF ~HashChanged(loc[w].lastHash, loc[w].hash)
       THEN /\ UNCHANGED hashes
            /\ IF loc[w].phase = "code"
               THEN LET l == AfterCode([loc[w] EXCEPT !.codeLastHash = loc[w].lastHash])
                    IN /\ loc' = [loc EXCEPT ![w] = l]
                       /\ pc' = [pc EXCEPT ![w] = NextPc(l)]
               ELSE /\ loc' = [loc EXCEPT ![w].phase = "none", ![w].hash = ZeroHash,
                                          ![w].lastHash = ZeroHash]
                    /\ pc' = [pc EXCEPT ![w] = "setError"]
       ELSE /\ hashes' = Store(hashes, Key(w), loc[w].hash)
            /\ loc' = [loc EXCEPT ![w].codeUpdated = (@ \/ loc[w].phase = "code"),
                                  ![w].lastHash = ZeroHash,
                                  ![w].codeLastHash =
                                      IF loc[w].phase = "code" THEN loc[w].lastHash ELSE @]
            /\ pc' = [pc EXCEPT ![w] = "write"]
    /\ UNCHANGED <<config, disk, fileNameToLastModTime, fileNameToError,
                   ev, res, calls, edits, ghosts>>

\* Variant: a failed write that puts the previous hash back.
HashesAfterFailedWriteRestored(hs, key, last) ==
    IF last = ZeroHash THEN [x \in DOMAIN hs \ {key} |-> hs[x]]
    ELSE Store(hs, key, last)
\* generate returns the writer's error and leaves h.hashes as UpsertHash set
\* it.
HashesAfterFailedWrite(hs, key, last) == hs

\* generate: h.writer(targetFileName, formattedGoCode), or
\* os.WriteFile(txtFileName, literals); either may fail.
Write(w) ==
    /\ pc[w] = "write"
    /\ LET bytes == IF loc[w].phase = "code" THEN loc[w].out ELSE loc[w].literals
       IN /\ lastWritten' = [lastWritten EXCEPT ![Key(w)] = [prev |-> @.last, last |-> bytes]]
          /\ \E ok \in BOOLEAN :
               IF ok
               THEN /\ artifacts' = [artifacts EXCEPT ![Key(w)] = bytes]
                    /\ UNCHANGED hashes
                    /\ IF loc[w].phase = "code"
                       THEN LET l == AfterCode([loc[w] EXCEPT !.goUpdated = TRUE,
                                                              !.codeWrites = @ + 1,
                                                              !.wrote = @ \cup {"code"}])
                            IN /\ loc' = [loc EXCEPT ![w] = l]
                               /\ pc' = [pc EXCEPT ![w] = NextPc(l)]
                       ELSE /\ loc' = [loc EXCEPT ![w].textUpdated = TRUE,
                                                  ![w].wrote = @ \cup {"txt"},
                                                  ![w].hash = ZeroHash,
                                                  ![w].phase = "none"]
                            /\ pc' = [pc EXCEPT ![w] = "setError"]
               ELSE /\ UNCHANGED artifacts
                    /\ hashes' = HashesAfterFailedWrite(hashes, Key(w),
                                    IF loc[w].phase = "code" THEN loc[w].codeLastHash
                                    ELSE ZeroHash)
                    /\ loc' = [loc EXCEPT ![w].err =
                                              IF loc[w].phase = "code"
                                              THEN ErrWriteTarget(Key(w))
                                              ELSE ErrWriteText(Key(w)),
                                          ![w].hasError = TRUE,
                                          ![w].codeWrites =
                                              IF loc[w].phase = "code" THEN @ + 1 ELSE @,
                                          ![w].hash = ZeroHash,
                                          ![w].phase = "none"]
                    /\ pc' = [pc EXCEPT ![w] = "setError"]
    /\ UNCHANGED <<config, files, fileNameToLastModTime, fileNameToError, mutex, ev,
                   res, calls, edits, rendered, lastCall>>

\* SetError, whose body runs under fileNameToErrorMutex from its first
\* statement to its return; then the return of HandleEvent: generate's error
\* wrapped, or its flags.
SetError(w) ==
    /\ pc[w] = "setError"
    /\ CanLock(mutex.errors)
    /\ UNCHANGED mutex
    /\ fileNameToError' = RegistryAfter(fileNameToError, ev[w].name, loc[w].hasError)
    /\ loc' = [loc EXCEPT ![w].previouslyHadError = (ev[w].name \in fileNameToError)]
    /\ res' = [res EXCEPT ![w] =
                 IF loc[w].hasError
                 THEN Result(FALSE, FALSE, WrapGenerate(ev[w].name, loc[w].err))
                 ELSE Result(loc[w].goUpdated, loc[w].textUpdated, NoErr)]
    /\ pc' = [pc EXCEPT ![w] = "done"]
    /\ UNCHANGED <<config, disk, fileNameToLastModTime, hashes, ev,
                   calls, edits, ghosts>>

\* The summary kept of a returned call that passed the modtime guard.
CallSummary(w) ==
    [how |-> loc[w].how, ok |-> ~loc[w].hasError, mtime |-> loc[w].cur,
     out |-> loc[w].out, codeLastHash |-> loc[w].codeLastHash,
     codeUpdated |-> loc[w].codeUpdated, codeWrites |-> loc[w].codeWrites,
     cleared |-> (loc[w].previouslyHadError /\ ~loc[w].hasError),
     err |-> loc[w].err]

PassedGuard(w) == loc[w].how \in {"passed", "rendered"}

\* Generate.Run, worker goroutine after HandleEvent: <-sem, eventsWG.Done()
Return(w) ==
    /\ pc[w] = "done"
    /\ pc' = [pc EXCEPT ![w] = "idle"]
    /\ ev' = [ev EXCEPT ![w] = NoEvent]
    /\ loc' = [loc EXCEPT ![w] = NoLoc]
    /\ res' = [res EXCEPT ![w] = NoRes]
    /\ lastCall' = IF ev[w].name \in InputFiles /\ PassedGuard(w)
                   THEN [lastCall EXCEPT ![ev[w].name] = CallSummary(w)]
                   ELSE lastCall
    /\ UNCHANGED <<config, disk, stores, mutex, calls, edits, lastWritten, rendered>>

\* The environment edits or touches an input file (any content, any time).
EditFile(n, c, t) ==
    /\ edits < limit.edits
    /\ t \in Times(limit.edits)
    /\ edits' = edits + 1
    /\ files' = [files EXCEPT ![n] = [exists |-> TRUE, mtime |-> t, content |-> c]]
    /\ UNCHANGED <<config, artifacts, stores, mutex, pc, ev, loc, res, calls,
                   ghosts>>

\* The environment removes an input file.
RemoveFile(n) ==
    /\ edits < limit.edits
    /\ files[n].exists
    /\ edits' = edits + 1
    /\ files' = [files EXCEPT ![n] = NoInput]
    /\ UNCHANGED <<config, artifacts, stores, mutex, pc, ev, loc, res, calls,
                   ghosts>>

Next ==
    \/ \E w \in Workers : \E e \in watched : Dispatch(w, e)
    \/ \E w \in Workers : Stat(w)
    \/ \E w \in Workers : ModLock(w)
    \/ \E w \in Workers : ModSet(w)
    \/ \E w \in Workers : GenerateRender(w)
    \/ \E w \in Workers : HashLock(w)
    \/ \E w \in Workers : HashSet(w)
    \/ \E w \in Workers : Write(w)
    \/ \E w \in Workers : SetError(w)
    \/ \E w \in Workers : Return(w)
    \/ \E n \in InputFiles, c \in Contents, t \in Times(MaxEdits + 2) : EditFile(n, c, t)
    \/ \E n \in InputFiles : RemoveFile(n)

Spec == Init /\ [][Next]_vars

\* One call of HandleEvent at a time for names put together from the pieces
\* "a", ".code.", "go", "." and "code.": no marker, one marker, two markers,
\* markers that overlap, a marker at the end; every file exists.
Pieces == {<<"a">>, DotCodeDot, <<"g", "o">>, <<".">>, <<"c", "o", "d", "e", ".">>}
FilterNames ==
    Pieces \cup {x \o y : x, y \in Pieces} \cup {x \o y \o z : x, y, z \in Pieces}
InitFilter ==
    /\ limit = [calls |-> 1, edits |-> MaxEdits]
    /\ watched = {Event(n, {"Create"}) : n \in FilterNames}
    /\ workerCount = 1
    /\ devMode = FALSE
    /\ files = [n \in FilterNames \cup InputFiles |->
                    [exists |-> TRUE, mtime |-> 1, content |-> "c2"]]
    /\ artifacts = [k \in ArtifactKeys \cup {TargetFileName(n) : n \in FilterNames} |->
                        NoFile]
    /\ fileNameToLastModTime = <<>>
    /\ fileNameToError = {}
    /\ hashes = <<>>
    /\ mutex = [modTime |-> Free, errors |-> Free, hashes |-> Free]
    /\ pc = [w \in Workers |-> "idle"]
    /\ ev = [w \in Workers |-> NoEvent]
    /\ loc = [w \in Workers |-> NoLoc]
    /\ res = [w \in Workers |-> NoRes]
    /\ calls = 0
    /\ edits = 0
    /\ lastWritten = [k \in DOMAIN artifacts |-> [prev |-> NoBytes, last |-> NoBytes]]
    /\ rendered = {}
    /\ lastCall = [n \in InputFiles |-> NoCall]
    /\ RunOff

SpecFilter == InitFilter /\ [][Next]_vars

\* Concurrent workers as in InitConc, with one more event and one more edit.
InitRace ==
    /\ limit = [calls |-> MaxCalls + 1, edits |-> MaxEdits + 1]
    /\ watched = {Event(n, {"Write"}) : n \in InputFiles}
    /\ workerCount = Cardinality(Workers)
    /\ devMode = TRUE
    /\ InitHandler

SpecRace == InitRace /\ [][Next]_vars

TypeOK ==
    /\ workerCount \in 1..Cardinality(Workers)
    /\ rendered \subseteq InputFiles \X Times(limit.edits)
    /\ pc \in [Workers -> {"idle", "stat", "modLock", "modSet", "generate",
                           "hashLock", "hashSet", "write", "setError", "done"}]
    /\ \A k \in DOMAIN mutex : mutex[k] \in Workers \cup {Free}

\* ------------------------------------------------------------ Generate.Run
\* The tree Run is started on, in the order of the walk: one input file for
\* a watch-mode run (which the user then edits), two for a one-shot run.
InputB == <<"b">> \o DotCodeDot \o <<"g", "o">>
Tree == IF watch THEN <<InputA>> ELSE <<InputA, InputB>>
TreeFiles == {Tree[i] : i \in 1..Len(Tree)}
\* What the files of the tree hold: a source that renders, or one the
\* renderer rejects.
TreeContents == {"c1", "bad"}
TreeArtifacts == {TargetFileName(n) : n \in TreeFiles} \cup {TxtFile}

\* runtime.NumCPU() of the machine the model runs on.
NumCPU == Cardinality(Workers)
\* NewGenerate: if g.Args.WorkerCount == 0 { g.Args.WorkerCount = runtime.NumCPU() }
NewGenerate(wc) == IF wc = 0 THEN NumCPU ELSE wc

\* NewFSEventHandler: three empty maps.
NewFSEventHandler(dev) ==
    [DevMode |-> dev, fileNameToLastModTime |-> <<>>, fileNameToError |-> {},
     hashes |-> <<>>]

\* The errors Run sends on errs and returns.
FatalError(cause) == [msg |-> "fatal", cause |-> cause]
Completed(n) == [msg |-> "generation completed with errors", count |-> n]
\* errors.Is(err, FatalError{})
IsFatal(err) == err.msg = "fatal"

\* What a writer call can do: succeed, or fail for the target file or for
\* the text file.
WriteFaults == {"none", "code", "text"}

\* generate(fileName) on handler h, as one step.
GenerateOn(h, fileName, fault) ==
    LET r == Render(files[fileName].content)
        target == TargetFileName(fileName)
        codeHash == Sum256(r.out)
        goUpdated == HashChanged(Lookup(h.hashes, target, ZeroHash), codeHash)
        hashes1 == IF goUpdated THEN Store(h.hashes, target, codeHash) ELSE h.hashes
        arts1 == IF goUpdated THEN [artifacts EXCEPT ![target] = r.out] ELSE artifacts
        txtHash == Sum256(r.literals)
        textUpdated == /\ r.literals # ""
                       /\ HashChanged(Lookup(hashes1, TxtFile, ZeroHash), txtHash)
        hashes2 == IF textUpdated THEN Store(hashes1, TxtFile, txtHash) ELSE hashes1
        arts2 == IF textUpdated THEN [arts1 EXCEPT ![TxtFile] = r.literals] ELSE arts1
        failed(hs, arts, e, ws) ==
            [hashes |-> hs, artifacts |-> arts, goUpdated |-> FALSE,
             textUpdated |-> FALSE, err |-> e, wrote |-> ws]
    IN IF ~r.ok
       THEN failed(h.hashes, artifacts, ErrGenerate(fileName), {})
       ELSE IF goUpdated /\ fault = "code"
       THEN failed(hashes1, artifacts, ErrWriteTarget(target), {})
       ELSE IF textUpdated /\ fault = "text"
       THEN failed(hashes2, arts1, ErrWriteText(TxtFile),
                   IF goUpdated THEN {target} ELSE {})
       ELSE [hashes |-> hashes2, artifacts |-> arts2, goUpdated |-> goUpdated,
             textUpdated |-> textUpdated, err |-> NoErr,
             wrote |-> (IF goUpdated THEN {target} ELSE {})
                            \cup (IF textUpdated THEN {TxtFile} ELSE {})]

\* Variant: a file that cannot be read is an error of HandleEvent.
MissingFileFails(skip, name) == [skip EXCEPT !.res = Result(FALSE, FALSE, ErrOpen(name))]
\* os.Stat fails in UpsertLastModTime: updated is false and HandleEvent
\* returns (false, false, nil).
MissingFile(skip, name) == skip

\* HandleEvent(ctx, e) on handler h, as one step: the handler after the call,
\* the artifacts on disk after it, the result and the artifacts it wrote.
HandleEventOn(h, e, fault) ==
    LET skip == [handler |-> h, artifacts |-> artifacts, wrote |-> {},
                 rendered |-> FALSE, res |-> Result(FALSE, FALSE, NoErr)]
    IN IF ~Has(e.op, "Remove") /\ HasSuffix(e.name, TxtSuffix)
       THEN IF h.DevMode
            THEN [skip EXCEPT !.res = Result(FALSE, TRUE, NoErr)]
            ELSE [skip EXCEPT !.artifacts =
                     IF e.name \in DOMAIN artifacts
                     THEN [artifacts EXCEPT ![e.name] = NoFile] ELSE artifacts]
       ELSE IF ~ContainsDotCodeDot(e.name) THEN skip
       ELSE IF ~files[e.name].exists THEN MissingFile(skip, e.name)
       ELSE IF ~After(files[e.name].mtime,
                      Lookup(h.fileNameToLastModTime, e.name, ZeroTime)) THEN skip
       ELSE LET g == GenerateOn(h, e.name, fault)
            IN [handler |->
                    [h EXCEPT !.fileNameToLastModTime =
                                  Store(h.fileNameToLastModTime, e.name, files[e.name].mtime),
                              !.hashes = g.hashes,
                              !.fileNameToError =
                                  RegistryAfter(h.fileNameToError, e.name, g.err # NoErr)],
                artifacts |-> g.artifacts,
                wrote |-> g.wrote,
                rendered |-> TRUE,
                res |-> IF g.err # NoErr
                        THEN Result(FALSE, FALSE, WrapGenerate(e.name, g.err))
                        ELSE Result(g.goUpdated, g.textUpdated, NoErr)]

\* Run up to the start of its goroutines (cmd.go 43-120), FileName empty,
\* in an environment that saves files at most maxEdits times.
InitRunWith(maxEdits) ==
    /\ watch \in BOOLEAN
    /\ limit = [calls |-> 0, edits |-> maxEdits]
    /\ watched = {}
    /\ workerCount \in {NewGenerate(wc) : wc \in 0..Cardinality(Workers)}
    /\ devMode = FALSE
    /\ files \in [TreeFiles -> {[exists |-> TRUE, mtime |-> 1, content |-> c] :
                                    c \in TreeContents}]
    /\ artifacts = [k \in TreeArtifacts |-> NoFile]
    /\ fileNameToLastModTime = <<>>
    /\ fileNameToError = {}
    /\ hashes = <<>>
    /\ mutex = [modTime |-> Free, errors |-> Free, hashes |-> Free]
    /\ pc = [w \in Workers |-> "idle"]
    /\ ev = [w \in Workers |-> NoEvent]
    /\ loc = [w \in Workers |-> NoLoc]
    /\ res = [w \in Workers |-> NoRes]
    /\ calls = 0
    /\ edits = 0
    /\ lastWritten = [k \in ArtifactKeys |-> [prev |-> NoBytes, last |-> NoBytes]]
    /\ rendered = {}
    /\ lastCall = [n \in InputFiles |-> NoCall]
    /\ args = [FileName |-> <<>>, FileWriter |-> "FileWriter"]
    /\ ctx = "live"
    /\ fseh = 1
    /\ handlers = <<NewFSEventHandler(watch)>>
    /\ push = [pc |-> "walk1", pos |-> 1, err |-> NoErr]
    /\ watcher = [state |-> "none", pending |-> {}]
    /\ loop = [pc |-> "recv", event |-> NoRunEvent]
    /\ eventsWG = 0
    /\ sem = 0
    /\ goroutines = [w \in Workers |-> NoGoroutine]
    /\ exiting = 0
    /\ errorCount = 0
    /\ postGeneration = <<>>
    /\ coord = [pc |-> "select", timer |-> "parked", goUpdated |-> FALSE,
                textUpdated |-> FALSE, updates |-> 0]
    /\ main = [pc |-> "range", err |-> NoErr]
    /\ log = NoLog

InitRun == InitRunWith(MaxEdits)

\* What the goroutines of Run leave alone: the arguments and the state of the
\* single handler of Spec.
single == <<args, limit, watched, workerCount, devMode, fileNameToLastModTime, fileNameToError,
            hashes, mutex, pc, ev, loc, res, calls, lastWritten, rendered, lastCall>>

\* --- the push goroutine (cmd.go 121-177)
Walking == push.pc \in {"walk1", "walk2"}

\* watcher.WalkFiles sends the next file of the tree on events; the dispatch
\* loop receives it (events is unbuffered).
WalkSend ==
    /\ Walking
    /\ push.pos <= Len(Tree)
    /\ loop.pc = "recv"
    /\ LET e == [name |-> Tree[push.pos], op |-> {"Create"}, src |-> push.pc,
                 id |-> log.sent + 1]
       IN /\ loop' = [pc |-> "add", event |-> e]
          /\ push' = [push EXCEPT !.pos = push.pos + 1]
          /\ log' = [log EXCEPT !.sent = log.sent + 1,
                                !.handled = Append(log.handled, 0)]
    /\ UNCHANGED <<single, files, artifacts, edits, watch, ctx, fseh, handlers, watcher,
                   eventsWG, sem, goroutines, exiting, errorCount, postGeneration,
                   coord, main>>

\* watcher.WalkFiles returns an error: errs <- FatalError{...} is pending.
WalkFail ==
    /\ Walking
    /\ push.pos <= Len(Tree)
    /\ push' = [push EXCEPT !.pc = "fatal",
                            !.err = FatalError("failed to walk files")]
    /\ log' = [log EXCEPT !.fatal = FatalError("failed to walk files")]
    /\ UNCHANGED <<single, files, artifacts, edits, watch, ctx, fseh, handlers, watcher,
                   loop, eventsWG, sem, goroutines, exiting, errorCount,
                   postGeneration, coord, main>>

\* Variant: a push goroutine that goes on to the watcher in every mode.
ReturnsAfterWalkNever(w) == FALSE
\* if !cmd.Args.Watch { return }
ReturnsAfterWalk(w) == ~w

\* The walk is over and the goroutine returns (close(events)): after the
\* first walk when Watch is off, and after the production walk.
WalkEnd ==
    /\ Walking
    /\ push.pos > Len(Tree)
    /\ push.pc = "walk1" => ReturnsAfterWalk(watch)
    /\ push' = [push EXCEPT !.pc = "done"]
    /\ UNCHANGED <<single, files, artifacts, edits, watch, ctx, fseh, handlers, watcher,
                   loop, eventsWG, sem, goroutines, exiting, errorCount,
                   postGeneration, coord, main, log>>

\* watcher.Recursive after the first walk in watch mode: the watcher starts,
\* or its setup fails.
WatcherSetup(ok) ==
    /\ push.pc = "walk1"
    /\ push.pos > Len(Tree)
    /\ ~ReturnsAfterWalk(watch)
    /\ IF ok
       THEN /\ push' = [push EXCEPT !.pc = "watching"]
            /\ watcher' = [state |-> "open", pending |-> {}]
            /\ UNCHANGED log
       ELSE /\ push' = [push EXCEPT !.pc = "fatal",
                            !.err = FatalError("failed to setup recursive watcher")]
            /\ log' = [log EXCEPT !.fatal =
                            FatalError("failed to setup recursive watcher")]
            /\ UNCHANGED watcher
    /\ UNCHANGED <<single, files, artifacts, edits, watch, ctx, fseh, handlers,
                   loop, eventsWG, sem, goroutines, exiting, errorCount,
                   postGeneration, coord, main>>

\* The caller cancels the context of a watch-mode run.
Cancel ==
    /\ push.pc = "watching"
    /\ ctx = "live"
    /\ ctx' = "done"
    /\ UNCHANGED <<single, files, artifacts, edits, watch, fseh, handlers, push, watcher,
                   loop, eventsWG, sem, goroutines, exiting, errorCount,
                   postGeneration, coord, main, log>>

\* <-ctx.Done(); rw.Close()
CloseWatcher ==
    /\ push.pc = "watching"
    /\ ctx = "done"
    /\ watcher' = [state |-> "closed", pending |-> {}]
    /\ push' = [push EXCEPT !.pc = "waitEvents"]
    /\ UNCHANGED <<single, files, artifacts, edits, watch, ctx, fseh, handlers,
                   loop, eventsWG, sem, goroutines, exiting, errorCount,
                   postGeneration, coord, main, log>>

\* Variant: a Wait that returns whatever the counter.
WaitGroupZeroAlways(counter) == TRUE
\* sync.WaitGroup.Wait returns when the counter is zero.
WaitGroupZero(counter) == counter = 0

\* eventsWG.Wait(); postGenerationEventsWG.Wait(). The post-generation
\* goroutine calls Add(1) and Done() of postGenerationEventsWG back to back,
\* so the second wait never holds the goroutine back.
WaitEvents ==
    /\ push.pc = "waitEvents"
    /\ WaitGroupZero(eventsWG)
    /\ push' = [push EXCEPT !.pc = "replace"]
    /\ UNCHANGED <<single, files, artifacts, edits, watch, ctx, fseh, handlers, watcher,
                   loop, eventsWG, sem, goroutines, exiting, errorCount,
                   postGeneration, coord, main, log>>

\* fseh = NewFSEventHandler(..., false, ...): production mode, empty stores.
NextHandler(old) == NewFSEventHandler(FALSE)

ReplaceHandler ==
    /\ push.pc = "replace"
    /\ handlers' = Append(handlers, NextHandler(handlers[fseh]))
    /\ fseh' = Len(handlers) + 1
    /\ push' = [push EXCEPT !.pc = "reset"]
    /\ UNCHANGED <<single, files, artifacts, edits, watch, ctx, watcher,
                   loop, eventsWG, sem, goroutines, exiting, errorCount,
                   postGeneration, coord, main, log>>

\* errorCount.Store(0), then the production walk starts.
ResetErrorCount ==
    /\ push.pc = "reset"
    /\ errorCount' = 0
    /\ push' = [push EXCEPT !.pc = "walk2", !.pos = 1]
    /\ log' = [log EXCEPT !.walks = log.walks + 1,
                          !.settlesAtWalk = log.settles,
                          !.unsettledAtWalk =
                              \/ coord.goUpdated \/ coord.textUpdated
                              \/ postGeneration # <<>>]
    /\ UNCHANGED <<single, files, artifacts, edits, watch, ctx, fseh, handlers, watcher,
                   loop, eventsWG, sem, goroutines, exiting,
                   postGeneration, coord, main>>

\* --- the watcher and the files it watches
\* The watcher reports a change of file n on events.
WatchSend(n) ==
    /\ watcher.state = "open"
    /\ n \in watcher.pending
    /\ loop.pc = "recv"
    /\ LET e == [name |-> n, op |-> {"Write"}, src |-> "watch", id |-> log.sent + 1]
       IN /\ loop' = [pc |-> "add", event |-> e]
          /\ log' = [log EXCEPT !.sent = log.sent + 1,
                                !.handled = Append(log.handled, 0)]
    /\ watcher' = [watcher EXCEPT !.pending = watcher.pending \ {n}]
    /\ UNCHANGED <<single, files, artifacts, edits, watch, ctx, fseh, handlers, push,
                   eventsWG, sem, goroutines, exiting, errorCount, postGeneration,
                   coord, main>>

\* The user saves file n with content c while the watcher runs and the run
\* is not cancelled.
EditTree(n, c) ==
    /\ watcher.state = "open"
    /\ ctx = "live"
    /\ edits < limit.edits
    /\ edits' = edits + 1
    /\ files' = [files EXCEPT ![n] = [exists |-> TRUE, mtime |-> files[n].mtime + 1,
                                      content |-> c]]
    /\ watcher' = [watcher EXCEPT !.pending = watcher.pending \cup {n}]
    /\ UNCHANGED <<single, artifacts, watch, ctx, fseh, handlers, push,
                   loop, eventsWG, sem, goroutines, exiting, errorCount,
                   postGeneration, coord, main, log>>

\* --- the dispatch loop (cmd.go 182-209)
\* eventsWG.Add(1) for the event just received.
LoopAdd ==
    /\ loop.pc = "add"
    /\ eventsWG' = eventsWG + 1
    /\ loop' = [loop EXCEPT !.pc = "acquire"]
    /\ UNCHANGED <<single, files, artifacts, edits, watch, ctx, fseh, handlers, push,
                   watcher, sem, goroutines, exiting, errorCount, postGeneration,
                   coord, main, log>>

\* Variant: a send on sem that never blocks.
SemFreeAlways(taken) == TRUE
\* sem <- struct{}{} proceeds while fewer than WorkerCount slots are taken.
SemFree(taken) == taken < workerCount

\* Variant: a worker that returns before it calls HandleEvent.
SpawnedNoCall(e) == [pc |-> "release", event |-> e, res |-> NoRes]
\* go func(event fsnotify.Event) {...}(event)
Spawned(e) == [pc |-> "call", event |-> e, res |-> NoRes]

\* sem <- struct{}{}; go func(event) {...}(event). A goroutine is w from
\* here until it has released its slot.
LoopAcquire(w) ==
    /\ loop.pc = "acquire"
    /\ SemFree(sem)
    /\ goroutines[w].pc = "idle"
    /\ \A v \in Workers : v < w => goroutines[v].pc # "idle"
    /\ sem' = sem + 1
    /\ goroutines' = [goroutines EXCEPT ![w] = Spawned(loop.event)]
    /\ loop' = [pc |-> "recv", event |-> NoRunEvent]
    /\ UNCHANGED <<single, files, artifacts, edits, watch, ctx, fseh, handlers, push,
                   watcher, eventsWG, exiting, errorCount, postGeneration, coord,
                   main, log>>

\* range events ends: the push goroutine has closed the channel.
LoopClosed ==
    /\ loop.pc = "recv"
    /\ push.pc = "done"
    /\ loop' = [loop EXCEPT !.pc = "wait"]
    /\ UNCHANGED <<single, files, artifacts, edits, watch, ctx, fseh, handlers, push,
                   watcher, eventsWG, sem, goroutines, exiting, errorCount,
                   postGeneration, coord, main, log>>

\* eventsWG.Wait(); close(postGeneration)
LoopWait ==
    /\ loop.pc = "wait"
    /\ WaitGroupZero(eventsWG)
    /\ loop' = [loop EXCEPT !.pc = "done"]
    /\ UNCHANGED <<single, files, artifacts, edits, watch, ctx, fseh, handlers, push,
                   watcher, eventsWG, sem, goroutines, exiting, errorCount,
                   postGeneration, coord, main, log>>

\* --- a worker goroutine (cmd.go 189-205)
\* The handler a worker finds in fseh. The events of the production walk are
\* sent after the assignment of fseh; a worker started for an earlier event
\* reads fseh without synchronisation and finds either handler once the
\* push goroutine has assigned it.
ReadFseh(e) == IF e.src = "walk2" THEN {fseh} ELSE 1..fseh

\* Variant: a worker that reports every call.
UpdatedAlways(r) == TRUE
\* if goUpdated || textUpdated
Updated(r) == r.goUpdated \/ r.textUpdated

\* fseh.HandleEvent(ctx, event), and the send on postGeneration when the call
\* reports an update (the channel holds 256 events and is never full here).
Call(w, h, fault) ==
    /\ goroutines[w].pc = "call"
    /\ h \in ReadFseh(goroutines[w].event)
    /\ LET e == goroutines[w].event
           o == HandleEventOn(handlers[h], e, fault)
           failed == o.res.err # NoErr
       IN /\ handlers' = [handlers EXCEPT ![h] = o.handler]
          /\ artifacts' = o.artifacts
          /\ goroutines' = [goroutines EXCEPT
                                ![w].res = o.res,
                                ![w].pc = IF failed THEN "sendErr" ELSE "release"]
          /\ postGeneration' =
                IF Updated(o.res)
                THEN Append(postGeneration, [Event |-> e, GoUpdated |-> o.res.goUpdated,
                                             TextUpdated |-> o.res.textUpdated])
                ELSE postGeneration
          /\ log' = [log EXCEPT
                        !.handled[e.id] = log.handled[e.id] + 1,
                        !.early = IF failed /\ log.walks = 0 THEN log.early + 1
                                  ELSE log.early,
                        !.late = IF failed /\ log.walks > 0 THEN log.late + 1
                                 ELSE log.late,
                        !.failedNames = IF failed THEN log.failedNames \cup {e.name}
                                        ELSE log.failedNames,
                        !.rewritten = log.rewritten \cup
                            {k \in o.wrote : /\ e.src = "walk2"
                                             /\ artifacts[k] = o.artifacts[k]}]
    /\ UNCHANGED <<single, files, edits, watch, ctx, fseh, push, watcher, loop,
                   eventsWG, sem, exiting, errorCount, coord, main>>

\* Variant: the error loop counts a fatal error like any other.
AfterRecvCountAll(err) == [pc |-> "add", err |-> NoErr]
\* The error loop of Run after it received err (cmd.go 254-263).
AfterRecv(err) ==
    IF IsFatal(err) THEN [pc |-> "returned", err |-> err]
    ELSE [pc |-> "add", err |-> NoErr]

\* errs <- err of a worker, received by the error loop (errs is unbuffered).
SendErr(w) ==
    /\ goroutines[w].pc = "sendErr"
    /\ main.pc = "range"
    /\ main' = AfterRecv(goroutines[w].res.err)
    /\ goroutines' = [goroutines EXCEPT ![w].pc = "release"]
    /\ UNCHANGED <<single, files, artifacts, edits, watch, ctx, fseh, handlers, push,
                   watcher, loop, eventsWG, sem, exiting, errorCount, postGeneration,
                   coord, log>>

\* Variant: a worker that returns without giving its slot back.
SemKeep(taken) == taken
\* <-sem: one slot of the semaphore is free again.
SemReceive(taken) == taken - 1

\* defer func() { <-sem }()
Release(w) ==
    /\ goroutines[w].pc = "release"
    /\ sem' = SemReceive(sem)
    /\ goroutines' = [goroutines EXCEPT ![w] = NoGoroutine]
    /\ exiting' = exiting + 1
    /\ UNCHANGED <<single, files, artifacts, edits, watch, ctx, fseh, handlers, push,
                   watcher, loop, eventsWG, errorCount, postGeneration, coord, main,
                   log>>

\* defer eventsWG.Done()
Done ==
    /\ exiting > 0
    /\ exiting' = exiting - 1
    /\ eventsWG' = eventsWG - 1
    /\ UNCHANGED <<single, files, artifacts, edits, watch, ctx, fseh, handlers, push,
                   watcher, loop, sem, goroutines, errorCount, postGeneration, coord,
                   main, log>>

\* --- the error loop of Run (cmd.go 253-285)
\* errs <- FatalError{...} of the push goroutine, received by the error
\* loop; the push goroutine returns and closes events.
SendFatal ==
    /\ push.pc = "fatal"
    /\ main.pc = "range"
    /\ main' = AfterRecv(push.err)
    /\ push' = [push EXCEPT !.pc = "done"]
    /\ UNCHANGED <<single, files, artifacts, edits, watch, ctx, fseh, handlers,
                   watcher, loop, eventsWG, sem, goroutines, exiting, errorCount,
                   postGeneration, coord, log>>

\* errorCount.Add(1)
CountError ==
    /\ main.pc = "add"
    /\ errorCount' = errorCount + 1
    /\ main' = [main EXCEPT !.pc = "range"]
    /\ UNCHANGED <<single, files, artifacts, edits, watch, ctx, fseh, handlers, push,
                   watcher, loop, eventsWG, sem, goroutines, exiting, postGeneration,
                   coord, log>>

\* Variant: Run that reports success whatever the count.
RunResultNil(n) == NoErr
\* if errorCount.Load() > 0 { return fmt.Errorf("generation completed with %d errors", ...) }
RunResult(n) == IF n > 0 THEN Completed(n) ELSE NoErr

\* range errs ends (the post-generation goroutine closed errs), the three
\* waits pass and Run returns.
Finish ==
    /\ main.pc = "range"
    /\ coord.pc = "done"
    /\ push.pc = "done"
    /\ loop.pc = "done"
    /\ main' = [pc |-> "returned", err |-> RunResult(errorCount)]
    /\ UNCHANGED <<single, files, artifacts, edits, watch, ctx, fseh, handlers, push,
                   watcher, loop, eventsWG, sem, goroutines, exiting, errorCount,
                   postGeneration, coord, log>>

\* --- the post-generation goroutine (cmd.go 214-251)
\* case ge := <-postGeneration, ge != nil
Accumulate ==
    /\ coord.pc = "select"
    /\ postGeneration # <<>>
    /\ LET ge == Head(postGeneration)
           goUpdated == coord.goUpdated \/ ge.GoUpdated
           textUpdated == coord.textUpdated \/ ge.TextUpdated
       IN coord' = [coord EXCEPT
                        !.goUpdated = goUpdated,
                        !.textUpdated = textUpdated,
                        !.updates = IF goUpdated \/ textUpdated THEN coord.updates + 1
                                    ELSE coord.updates,
                        !.timer = "armed"]
    /\ postGeneration' = Tail(postGeneration)
    /\ UNCHANGED <<single, files, artifacts, edits, watch, ctx, fseh, handlers, push,
                   watcher, loop, eventsWG, sem, goroutines, exiting, errorCount,
                   main, log>>

\* case ge := <-postGeneration, ge == nil: the channel is closed and empty;
\* postGenerationWG.Done() and close(errs) run as the goroutine returns.
Closed ==
    /\ coord.pc = "select"
    /\ postGeneration = <<>>
    /\ loop.pc = "done"
    /\ coord' = [coord EXCEPT !.pc = "done"]
    /\ UNCHANGED <<single, files, artifacts, edits, watch, ctx, fseh, handlers, push,
                   watcher, loop, eventsWG, sem, goroutines, exiting, errorCount,
                   postGeneration, main, log>>

\* Variant: a settle that keeps what was accumulated.
SettledKeep(c) == c
\* textUpdated = false; goUpdated = false (the timer was reset to 100 ms).
Settled(c) == [c EXCEPT !.goUpdated = FALSE, !.textUpdated = FALSE]

\* case <-timeout.C: the 100 ms timer fires (the one-year timer never does).
\* With nothing accumulated the timer is parked; otherwise the generation
\* has settled and the accumulator is cleared.
Timeout ==
    /\ coord.pc = "select"
    /\ coord.timer = "armed"
    /\ IF ~coord.goUpdated /\ ~coord.textUpdated
       THEN /\ coord' = [coord EXCEPT !.timer = "parked"]
            /\ UNCHANGED log
       ELSE /\ coord' = Settled(coord)
            /\ log' = [log EXCEPT !.settles = log.settles + 1]
    /\ UNCHANGED <<single, files, artifacts, edits, watch, ctx, fseh, handlers, push,
                   watcher, loop, eventsWG, sem, goroutines, exiting, errorCount,
                   postGeneration, main>>

NextRun ==
    \/ WalkSend
    \/ WalkFail
    \/ WalkEnd
    \/ \E ok \in BOOLEAN : WatcherSetup(ok)
    \/ Cancel
    \/ CloseWatcher
    \/ WaitEvents
    \/ ReplaceHandler
    \/ ResetErrorCount
    \/ \E n \in TreeFiles : WatchSend(n)
    \/ \E n \in TreeFiles, c \in TreeContents : EditTree(n, c)
    \/ LoopAdd
    \/ \E w \in Workers : LoopAcquire(w)
    \/ LoopClosed
    \/ LoopWait
    \/ \E w \in Workers, h \in 1..2, fault \in WriteFaults : Call(w, h, fault)
    \/ \E w \in Workers : SendErr(w)
    \/ \E w \in Workers : Release(w)
    \/ Done
    \/ SendFatal
    \/ CountError
    \/ Finish
    \/ Accumulate
    \/ Closed
    \/ Timeout

SpecRun == InitRun /\ [][NextRun]_vars

\* The steps of the goroutines of Run and of the watcher, without those of
\* the caller (Cancel) and of the user (EditTree).
ProgramStep ==
    \/ WalkSend
    \/ WalkFail
    \/ WalkEnd
    \/ \E ok \in BOOLEAN : WatcherSetup(ok)
    \/ CloseWatcher
    \/ WaitEvents
    \/ ReplaceHandler
    \/ ResetErrorCount
    \/ \E n \in TreeFiles : WatchSend(n)
    \/ LoopAdd
    \/ \E w \in Workers : LoopAcquire(w)
    \/ LoopClosed
    \/ LoopWait
    \/ \E w \in Workers, h \in 1..2, fault \in WriteFaults : Call(w, h, fault)
    \/ \E w \in Workers : SendErr(w)
    \/ \E w \in Workers : Release(w)
    \/ Done
    \/ SendFatal
    \/ CountError
    \/ Finish
    \/ Accumulate
    \/ Closed
    \/ Timeout

\* Run started on a tree whose files all render (edits and failing writes
\* bring in the per-file errors); a watch-mode run has one worker slot, so
\* that the dispatch loop waits for the semaphore, a one-shot run one or two.
InitRunFair ==
    /\ InitRun
    /\ \A n \in TreeFiles : Render(files[n].content).ok
    /\ watch => workerCount = 1

\* The Go scheduler runs a goroutine that can take a step; the walker
\* terminates (the tree is finite) and the timer fires.
SpecRunFair == InitRunFair /\ [][NextRun]_vars /\ WF_vars(ProgramStep)

\* A watch-mode run with one worker slot in which the user saves the file
\* once more, so that a change can be reported while the worker is busy and
\* the dispatch loop holds the event before it.
InitRunBurst ==
    /\ InitRunWith(MaxEdits + 1)
    /\ watch /\ workerCount = 1
SpecRunBurst == InitRunBurst /\ [][NextRun]_vars

\* --- Run before its goroutines (cmd.go 43-94)
\* The -f arguments: none, a file of the tree, a file that is not an input,
\* the text artifact.
FileNames == {<<>>, OtherFile, TxtFile} \cup TreeFiles

ErrWatchSingleFile == [msg |-> "cannot watch a single file, remove the -f or -watch flag"]
ErrStdoutNeedsFile == [msg |-> "only a single file can be output to stdout"]

\* Variant: Run that accepts every combination of arguments.
ArgumentErrorNone(w, a) == NoErr
\* The checks of Run on its arguments (cmd.go 44-50).
ArgumentError(w, a) ==
    IF w /\ a.FileName # <<>> THEN ErrWatchSingleFile
    ELSE IF a.FileName = <<>> /\ a.FileWriter # "nil" THEN ErrStdoutNeedsFile
    ELSE NoErr

\* The generated files on disk after a call of the handler: FileWriter
\* writes the target file, WriterFileWriter(w) writes the code to w and
\* leaves the target file alone (the text file is written with os.WriteFile
\* under either writer).
OnDisk(writer, target, before, after) ==
    IF writer = "WriterFileWriter" /\ target \in DOMAIN after
    THEN [after EXCEPT ![target] = before[target]]
    ELSE after

\* Run as it is called: any combination of -watch, -f and an injected
\* writer, Args.Path absolute (lines 57-62 do nothing), no goroutine started.
\* The file named with -f need not exist.
InitArgs ==
    /\ watch \in BOOLEAN
    /\ args \in [FileName : FileNames, FileWriter : {"nil", "WriterFileWriter"}]
    /\ limit = [calls |-> 0, edits |-> MaxEdits]
    /\ watched = {}
    /\ workerCount \in {NewGenerate(wc) : wc \in 0..Cardinality(Workers)}
    /\ devMode = FALSE
    /\ files \in [TreeFiles -> {[exists |-> TRUE, mtime |-> 1, content |-> c] :
                                    c \in TreeContents} \cup {NoInput}]
    /\ \A n \in TreeFiles : ~files[n].exists => args.FileName = n
    /\ artifacts = [k \in TreeArtifacts |-> NoFile]
    /\ fileNameToLastModTime = <<>>
    /\ fileNameToError = {}
    /\ hashes = <<>>
    /\ mutex = [modTime |-> Free, errors |-> Free, hashes |-> Free]
    /\ pc = [w \in Workers |-> "idle"]
    /\ ev = [w \in Workers |-> NoEvent]
    /\ loc = [w \in Workers |-> NoLoc]
    /\ res = [w \in Workers |-> NoRes]
    /\ calls = 0
    /\ edits = 0
    /\ lastWritten = [k \in ArtifactKeys |-> [prev |-> NoBytes, last |-> NoBytes]]
    /\ rendered = {}
    /\ lastCall = [n \in InputFiles |-> NoCall]
    /\ ctx = "live"
    /\ fseh = 1
    /\ handlers = <<>>
    /\ push = [pc |-> "off", pos |-> 1, err |-> NoErr]
    /\ watcher = [state |-> "none", pending |-> {}]
    /\ loop = [pc |-> "off", event |-> NoRunEvent]
    /\ eventsWG = 0
    /\ sem = 0
    /\ goroutines = [w \in Workers |-> NoGoroutine]
    /\ exiting = 0
    /\ errorCount = 0
    /\ postGeneration = <<>>
    /\ coord = [pc |-> "off", timer |-> "parked", goUpdated |-> FALSE,
                textUpdated |-> FALSE, updates |-> 0]
    /\ main = [pc |-> "args", err |-> NoErr]
    /\ log = NoLog

\* Run from its first line to the start of its goroutines: the checks of the
\* arguments, the default writer, the handler, and the choice between the
\* single file and the worker pool (cmd.go 44-54, 77-88, 96-120).
Validate ==
    /\ main.pc = "args"
    /\ LET err == ArgumentError(watch, args)
       IN IF err # NoErr
          THEN /\ main' = [pc |-> "returned", err |-> err]
               /\ UNCHANGED <<args, handlers, push, loop, coord>>
          ELSE /\ args' = [args EXCEPT !.FileWriter =
                               IF @ = "nil" THEN "FileWriter" ELSE @]
               /\ handlers' = <<NewFSEventHandler(watch)>>
               /\ IF args.FileName # <<>>
                  THEN /\ main' = [pc |-> "single", err |-> NoErr]
                       /\ UNCHANGED <<push, loop, coord>>
                  ELSE /\ main' = [pc |-> "range", err |-> NoErr]
                       /\ push' = [push EXCEPT !.pc = "walk1"]
                       /\ loop' = [loop EXCEPT !.pc = "recv"]
                       /\ coord' = [coord EXCEPT !.pc = "select"]
    /\ UNCHANGED <<limit, watched, workerCount, devMode, fileNameToLastModTime,
                   fileNameToError, hashes, mutex, pc, ev, loc, res, calls, lastWritten,
                   rendered, lastCall, files, artifacts, edits, watch, ctx, fseh,
                   watcher, eventsWG, sem, goroutines, exiting, errorCount,
                   postGeneration, log>>

\* _, _, err = fseh.HandleEvent(ctx, fsnotify.Event{Name: FileName, Op: Create});
\* return err (cmd.go 88-94).
SingleFile(fault) ==
    /\ main.pc = "single"
    /\ LET e == Event(args.FileName, {"Create"})
           o == HandleEventOn(handlers[fseh], e, fault)
       IN /\ handlers' = [handlers EXCEPT ![fseh] = o.handler]
          /\ artifacts' = OnDisk(args.FileWriter, TargetFileName(e.name), artifacts,
                                 o.artifacts)
          /\ main' = [pc |-> "returned", err |-> o.res.err]
          /\ log' = [log EXCEPT !.direct =
                        Append(log.direct, [event |-> e, res |-> o.res,
                                            rendered |-> o.rendered, wrote |-> o.wrote])]
    /\ UNCHANGED <<single, files, edits, watch, ctx, fseh, push, watcher, loop,
                   eventsWG, sem, goroutines, exiting, errorCount, postGeneration,
                   coord>>

NextArgs ==
    \/ Validate
    \/ \E fault \in WriteFaults : SingleFile(fault)
    \/ NextRun

SpecArgs == InitArgs /\ [][NextArgs]_vars

TypeOKRun ==
    /\ sem \in 0..Cardinality(Workers)
    /\ eventsWG \in Nat
    /\ exiting \in Nat
    /\ errorCount \in Nat
    /\ fseh = Len(handlers)
    /\ Len(log.handled) = log.sent

\* ----------------------------------------------------------------- claims
FalseFalseNil == Result(FALSE, FALSE, NoErr)
Returned(w) == pc[w] = "done"
\* The renderer ran for w's event and produced output.
RenderedOk(w) == loc[w].how = "rendered" /\ loc[w].out # NoBytes
\* w dispatches an event in this step (HandleEvent is entered).
Enters(w) == pc[w] = "idle" /\ pc'[w] # "idle"

\* C1: with one worker at a time, when two successive calls of HandleEvent for
\* the same input render the same bytes, the second observes a strictly newer
\* modtime, its UpsertHash returns false and it does not invoke the writer; the
\* first call's UpsertHash returned true (the store held another digest) and
\* it invoked the writer exactly once.
C1_DedupIdempotence ==
    workerCount = 1 =>
        \A w \in Workers :
            LET n == ev[w].name
                first == lastCall[n]
            IN (/\ Returned(w) /\ n \in InputFiles /\ RenderedOk(w)
                /\ first.how = "rendered" /\ first.out = loc[w].out)
               => /\ loc[w].cur > first.mtime
                  /\ ~loc[w].codeUpdated
                  /\ loc[w].codeWrites = 0
                  /\ (first.codeLastHash # Sum256(first.out)
                        => first.codeUpdated /\ first.codeWrites = 1)

C1_Witness ==
    \E w \in Workers :
        /\ workerCount = 1 /\ Returned(w) /\ ev[w].name \in InputFiles /\ RenderedOk(w)
        /\ lastCall[ev[w].name].how = "rendered"
        /\ lastCall[ev[w].name].out = loc[w].out
        /\ lastCall[ev[w].name].codeLastHash = ZeroHash
        /\ lastCall[ev[w].name].codeWrites = 1
        /\ loc[w].codeWrites = 0

\* C2: with one worker at a time and a working renderer and writer: the first
\* handled event of an input writes its artifact once and leaves no error; a
\* later call that renders other bytes writes again and stores another digest;
\* a later call that renders the same bytes observed a strictly newer modtime,
\* invoked the renderer and wrote nothing.
C2_EditSequence ==
    workerCount = 1 =>
        \A w \in Workers :
            LET n == ev[w].name
                prev == lastCall[n]
                target == TargetFileName(n)
            IN (Returned(w) /\ n \in InputFiles /\ RenderedOk(w) /\ ~loc[w].hasError)
               => /\ (prev.how = "none" =>
                        /\ loc[w].codeWrites = 1
                        /\ res[w].goUpdated /\ res[w].err = NoErr
                        /\ n \notin fileNameToError
                        /\ artifacts[target] = loc[w].out)
                  /\ (prev.how = "rendered" /\ prev.ok /\ prev.out # loc[w].out =>
                        /\ loc[w].codeWrites = 1
                        /\ res[w].goUpdated
                        /\ hashes[target] = Sum256(loc[w].out)
                        /\ hashes[target] # Sum256(prev.out)
                        /\ artifacts[target] = loc[w].out)
                  /\ (prev.how = "rendered" /\ prev.ok /\ prev.out = loc[w].out =>
                        /\ loc[w].cur > prev.mtime
                        /\ <<n, loc[w].cur>> \in rendered
                        /\ loc[w].codeWrites = 0
                        /\ res[w] = FalseFalseNil)

C2_Witness ==
    \E w \in Workers :
        /\ workerCount = 1 /\ Returned(w) /\ ev[w].name \in InputFiles
        /\ RenderedOk(w) /\ ~loc[w].hasError
        /\ lastCall[ev[w].name].how = "rendered" /\ lastCall[ev[w].name].ok
        /\ lastCall[ev[w].name].out = loc[w].out
        /\ lastCall[ev[w].name].codeLastHash # ZeroHash
        /\ lastCall[ev[w].name].codeWrites = 1
        /\ res[w] = FalseFalseNil

\* C3: for one path and one observed modtime the renderer is invoked at most
\* once, whatever the interleaving: two calls in flight for the same path that
\* passed the modtime guard observed different times, no (path, time) pair is
\* rendered twice, and a call whose observed time is not after the stored one
\* returns (false, false, nil) without rendering.
C3_DuplicateGuard ==
    /\ [](\A w1, w2 \in Workers :
            (w1 # w2 /\ PassedGuard(w1) /\ PassedGuard(w2) /\ ev[w1].name = ev[w2].name)
                => loc[w1].cur # loc[w2].cur)
    /\ [](\A w \in Workers :
            (Returned(w) /\ loc[w].how = "stale") => res[w] = FalseFalseNil)
    /\ [][\A w \in Workers :
            (pc[w] = "generate" /\ pc'[w] # "generate" /\ files[ev[w].name].exists)
                => <<ev[w].name, loc[w].cur>> \notin rendered]_vars
    /\ [][\A w \in Workers :
            (/\ pc[w] = "modSet" /\ pc'[w] # "modSet"
             /\ Lookup(fileNameToLastModTime, ev[w].name, ZeroTime) >= loc[w].cur)
                => pc'[w] = "done" /\ res'[w] = FalseFalseNil /\ rendered' = rendered]_vars

C3_Witness ==
    \E w \in Workers :
        /\ Returned(w) /\ loc[w].how = "stale"
        /\ <<ev[w].name, loc[w].cur>> \in rendered
        /\ workerCount > 1

\* C4 (as claimed): for every event whose path does not match the relevance
\* marker, HandleEvent changes no store, writes and deletes nothing and
\* returns (false, false, nil).
C4_NoOpForUnmarked ==
    [][\A w \in Workers :
        (Enters(w) /\ ~ContainsDotCodeDot(ev'[w].name))
            => /\ pc'[w] = "done"
               /\ res'[w] = FalseFalseNil
               /\ UNCHANGED <<stores, disk, lastWritten, rendered>>]_vars

\* C4 (amended): for every event whose path does not match the relevance
\* marker, other than a non-removal event for a path ending in _code.txt,
\* HandleEvent changes no store, writes and deletes nothing and returns
\* (false, false, nil).
C4_NoOpForUnmarkedExceptText ==
    [][\A w \in Workers :
        (/\ Enters(w) /\ ~ContainsDotCodeDot(ev'[w].name)
         /\ ~(~Has(ev'[w].op, "Remove") /\ HasSuffix(ev'[w].name, TxtSuffix)))
            => /\ pc'[w] = "done"
               /\ res'[w] = FalseFalseNil
               /\ UNCHANGED <<stores, disk, lastWritten, rendered>>]_vars

C4_Witness ==
    \E w \in Workers :
        /\ Returned(w) /\ loc[w].how = "irrelevant"
        /\ ev[w].name = EdgeFile
        /\ hashes # <<>>

\* C5: SetError leaves the path in the registry exactly when the attempt
\* failed, and HandleEvent then returns the cause wrapped with the path; with
\* one worker at a time the registry holds the path iff the latest attempt
\* failed, and SetError reports previouslyHadError iff the attempt before
\* failed.
C5_ErrorRegistry ==
    /\ [][\A w \in Workers :
            (pc[w] = "setError" /\ pc'[w] = "done")
                => /\ loc[w].hasError =>
                        /\ ev[w].name \in fileNameToError'
                        /\ loc[w].err # NoErr
                        /\ res'[w].err = WrapGenerate(ev[w].name, loc[w].err)
                        /\ res'[w].err.path = ev[w].name
                        /\ res'[w].err.cause = loc[w].err
                   /\ ~loc[w].hasError =>
                        /\ ev[w].name \notin fileNameToError'
                        /\ res'[w].err = NoErr
                   /\ loc'[w].previouslyHadError = (ev[w].name \in fileNameToError)]_vars
    /\ [](workerCount = 1 =>
            \A w \in Workers :
                (Returned(w) /\ PassedGuard(w))
                    => /\ (ev[w].name \in fileNameToError) = loc[w].hasError
                       /\ loc[w].previouslyHadError =
                            (/\ lastCall[ev[w].name].how # "none"
                             /\ ~lastCall[ev[w].name].ok))

C5_Witness ==
    \E w \in Workers :
        /\ workerCount = 1 /\ Returned(w) /\ loc[w].how = "rendered"
        /\ ~loc[w].hasError /\ loc[w].previouslyHadError
        /\ lastCall[ev[w].name].how = "rendered" /\ ~lastCall[ev[w].name].ok
        /\ lastCall[ev[w].name].out = NoBytes
        /\ ev[w].name \notin fileNameToError

\* C6: UpsertHash decides and stores in one critical section: inside it the
\* digest read is the stored one, it returns true iff the stored digest
\* differs from the new one and then stores the new one, and a call that
\* returns false leaves the store as it was; so of concurrent calls with one
\* key and one new digest exactly one returns true.
C6_UpsertHashAtomic ==
    /\ [](\A w \in Workers :
            pc[w] = "hashSet"
                => /\ mutex.hashes = w
                   /\ loc[w].lastHash = Lookup(hashes, Key(w), ZeroHash))
    /\ [][\A w \in Workers :
            (pc[w] = "hashSet" /\ pc'[w] # "hashSet")
                => LET stored == Lookup(hashes, Key(w), ZeroHash)
                       returnedTrue == pc'[w] = "write"
                   IN /\ returnedTrue = (stored # loc[w].hash)
                      /\ returnedTrue => hashes' = Store(hashes, Key(w), loc[w].hash)
                      /\ ~returnedTrue => hashes' = hashes]_vars

C6_Witness ==
    \E w1, w2 \in Workers :
        /\ w1 # w2
        /\ pc[w1] = "write" /\ loc[w1].phase = "code"
        /\ pc[w2] \in {"setError", "done"} /\ RenderedOk(w2)
        /\ ev[w1].name = ev[w2].name /\ loc[w1].out = loc[w2].out
        /\ ~loc[w2].codeUpdated

\* C7 (as claimed): while a worker is between a successful UpsertHash for a
\* key and the end of its write of that artifact, no other worker is inside
\* UpsertHash for the same key.
C7_WriteSerializedPerKey ==
    \A w1, w2 \in Workers :
        (w1 # w2 /\ pc[w1] = "write" /\ pc[w2] = "hashSet") => Key(w1) # Key(w2)

\* C8 (as claimed): for every artifact key and digest at most one write with
\* that digest is pending, and no two consecutive writes of one artifact carry
\* the same bytes.
C8_NoDuplicateWrite ==
    /\ \A w1, w2 \in Workers :
        (w1 # w2 /\ pc[w1] = "write" /\ pc[w2] = "write" /\ Key(w1) = Key(w2))
            => loc[w1].hash # loc[w2].hash
    /\ \A k \in ArtifactKeys :
        lastWritten[k].last # NoBytes => lastWritten[k].prev # lastWritten[k].last

\* C9: the stored modtime of a path never decreases and no entry is removed;
\* UpsertLastModTime reports updated iff the observed time is strictly after
\* the stored one, then stores exactly the observed time, and otherwise leaves
\* the store as it was.
C9_ModTimeMonotonic ==
    /\ [][\A n \in DOMAIN fileNameToLastModTime :
            /\ n \in DOMAIN fileNameToLastModTime'
            /\ fileNameToLastModTime'[n] >= fileNameToLastModTime[n]]_vars
    /\ [][\A w \in Workers :
            (pc[w] = "modSet" /\ pc'[w] # "modSet")
                => LET stored == Lookup(fileNameToLastModTime, ev[w].name, ZeroTime)
                       updated == pc'[w] = "generate"
                   IN /\ updated = (loc[w].cur > stored)
                      /\ updated => fileNameToLastModTime' =
                                        Store(fileNameToLastModTime, ev[w].name, loc[w].cur)
                      /\ ~updated => fileNameToLastModTime' = fileNameToLastModTime]_vars

C9_Witness ==
    \E w \in Workers :
        /\ Returned(w) /\ loc[w].how = "stale"
        /\ loc[w].cur < fileNameToLastModTime[ev[w].name]

\* C10: when the stat of the event's path fails, UpsertLastModTime returns the
\* zero time and updated=false, and HandleEvent returns (false, false, nil):
\* no store changes, the renderer is not invoked and nothing is written.
C10_StatFailure ==
    /\ [][\A w \in Workers :
            (pc[w] = "stat" /\ pc'[w] # "stat" /\ ~files[ev[w].name].exists)
                => /\ pc'[w] = "done"
                   /\ res'[w] = FalseFalseNil
                   /\ loc'[w].cur = ZeroTime
                   /\ UNCHANGED <<stores, artifacts, lastWritten, rendered>>]_vars
    /\ [](\A w \in Workers :
            (Returned(w) /\ loc[w].how = "statfail")
                => res[w] = FalseFalseNil /\ ~loc[w].hasError)

C10_Witness ==
    \E w \in Workers :
        /\ Returned(w) /\ loc[w].how = "statfail"
        /\ res[w] = FalseFalseNil
        /\ ev[w].name \in fileNameToError

\* ------------------------------------------------- claims about Generate.Run
Holding == {w \in Workers : goroutines[w].pc # "idle"}
RunReturned == main.pc = "returned"

\* C11: at most WorkerCount workers hold a slot of sem, and so at most
\* WorkerCount calls of HandleEvent run at once; every event counted by
\* eventsWG is in exactly one place (about to take a slot, holding one, or
\* past its release), and when the dispatch loop has finished no slot is
\* taken and no event is counted, also after calls that returned an error.
C11_BoundedConcurrency ==
    /\ sem <= workerCount
    /\ Cardinality(Holding) = sem
    /\ Cardinality({w \in Workers : goroutines[w].pc = "call"}) <= workerCount
    /\ eventsWG = sem + exiting + (IF loop.pc = "acquire" THEN 1 ELSE 0)
    /\ loop.pc = "done" => sem = 0 /\ exiting = 0 /\ eventsWG = 0

C11_Witness ==
    /\ loop.pc = "done"
    /\ workerCount = 1
    /\ log.sent = 2
    /\ log.early = 2
    /\ sem = 0

\* C12: no event is handed to HandleEvent twice, and when Run returns
\* anything but a fatal error every event sent on the events channel was
\* handed to HandleEvent exactly once, whether or not earlier calls failed.
C12_EveryEventHandledOnce ==
    /\ \A i \in 1..log.sent : log.handled[i] <= 1
    /\ (RunReturned /\ ~IsFatal(main.err)) =>
            \A i \in 1..log.sent : log.handled[i] = 1

C12_Witness ==
    /\ RunReturned /\ ~IsFatal(main.err)
    /\ workerCount = 1
    /\ log.sent = 2
    /\ log.failedNames = {InputA}
    /\ \A i \in 1..log.sent : log.handled[i] = 1

\* C13: when a watch-mode run returns nil, the artifact of every input file
\* of the tree holds the render of the file's content as it is then (the
\* files are not edited after the cancellation). Not kept: an event the
\* dispatch loop received before the drain, handled by the production
\* handler, can fail and leave the file marked as seen, see C15.
C13_FinalReconciliation ==
    (RunReturned /\ main.err = NoErr /\ watch) =>
        \A n \in TreeFiles :
            artifacts[TargetFileName(n)] = Render(files[n].content).out

\* C14: the production walk starts at most once, only in a watch-mode run
\* and only after the cancellation, and when it starts after an edit of the
\* watch phase every update reported so far has been settled: none waits in
\* postGeneration or in the accumulator of the post-generation goroutine.
\* Not kept: the push goroutine does not wait for the debounce timer.
C14_ShutdownProtocol ==
    /\ log.walks <= 1
    /\ log.walks = 1 => watch /\ ctx = "done"
    /\ (log.walks = 1 /\ edits > 0) => ~log.unsettledAtWalk

\* C15: from the moment the push goroutine has passed its waits until the
\* production walk sends its first event (the handler is replaced and the
\* error count reset in between), no event is outstanding: the dispatch loop
\* holds none, no worker holds a slot and eventsWG is zero. Not kept:
\* eventsWG.Add(1) runs after the receive, so the wait can pass too early.
C15_DrainBeforeProductionWalk ==
    (\/ push.pc \in {"replace", "reset"}
     \/ push.pc = "walk2" /\ push.pos = 1) =>
        /\ loop.pc = "recv"
        /\ sem = 0
        /\ exiting = 0
        /\ eventsWG = 0

\* C16: no event of the production walk writes an artifact with the bytes
\* the artifact already holds on disk from the watch phase. Not kept: the
\* production handler starts with an empty hash store.
C16_HashStorePreserved == log.rewritten = {}

\* C17: when a watch-mode run returns after its production walk without a
\* fatal error, the count it reports is the number of HandleEvent calls that
\* failed after errorCount.Store(0): nil when there was none. Not kept: the
\* error loop can add a failure it received before the reset after it.
C17_ErrorCountReset ==
    (RunReturned /\ watch /\ ~IsFatal(main.err) /\ log.walks = 1) =>
        main.err = IF log.late > 0 THEN Completed(log.late) ELSE NoErr

\* C18: once the initial walk, the watcher setup or the production walk has
\* failed, Run returns nothing but the fatal error of that failure: neither
\* nil nor "generation completed with N errors", whatever was counted.
C18_FatalAbsorbing ==
    (RunReturned /\ log.fatal # NoErr) => main.err = log.fatal

C18_Witness ==
    /\ RunReturned
    /\ main.err = FatalError("failed to walk files")
    /\ log.walks = 1
    /\ log.failedNames # {}
    /\ errorCount > 0

\* C19: once Run has returned a fatal error, no worker is left waiting to
\* send its error on errs, a send nobody will receive, so that every worker
\* can still release its slot and mark its event done. Not kept: errs is
\* unbuffered and its only receiver is the error loop that has returned.
C19_DrainAfterFatal ==
    ~(/\ RunReturned
      /\ IsFatal(main.err)
      /\ \E w \in Workers : goroutines[w].pc = "sendErr")

\* C20: when a run without watch mode returns anything but a fatal error,
\* every file of the tree was handed to HandleEvent once; the result is nil
\* exactly when no call returned an error, and otherwise it is "generation
\* completed with N errors" with N the number of files whose call failed.
C20_AggregateResult ==
    (RunReturned /\ ~watch /\ ~IsFatal(main.err)) =>
        /\ log.sent = Len(Tree)
        /\ \A i \in 1..log.sent : log.handled[i] = 1
        /\ (main.err = NoErr) <=> (log.early = 0)
        /\ main.err # NoErr => main.err = Completed(Cardinality(log.failedNames))

C20_Witness ==
    /\ RunReturned /\ ~watch
    /\ main.err = Completed(1)
    /\ log.failedNames = {InputA}
    /\ artifacts[TargetFileName(InputB)] = Render("c1").out

\* C21: under fair scheduling a run without watch mode returns, and a
\* watch-mode run returns once its context is cancelled and until then gets
\* as far as watching (where it waits for the watcher and the caller, not
\* for one of its own goroutines); Run returns a result that is not a fatal
\* error only when the push goroutine, the dispatch loop with its workers
\* and the post-generation goroutine have finished.
C21_Termination ==
    /\ (~watch \/ ctx = "done") ~> RunReturned
    /\ watch ~> (push.pc = "watching" \/ RunReturned)
    /\ []((RunReturned /\ ~IsFatal(main.err)) =>
            /\ push.pc = "done"
            /\ loop.pc = "done" /\ eventsWG = 0
            /\ coord.pc = "done" /\ postGeneration = <<>>)

C21_Witness ==
    /\ RunReturned /\ ~IsFatal(main.err)
    /\ watch /\ ctx = "done"
    /\ edits > 0
    /\ log.walks = 1
    /\ log.settles > 0
    /\ push.pc = "done" /\ loop.pc = "done" /\ coord.pc = "done"

\* ---------------------------------------- claims about a failed write
\* The call worker w is about to return from follows, for the same path, a
\* call whose write of the artifact failed, and has rendered the same bytes.
FollowsFailedWrite(w) ==
    /\ pc[w] = "done"
    /\ workerCount = 1
    /\ ev[w].name \in InputFiles
    /\ loc[w].how = "rendered"
    /\ loc[w].out # NoBytes
    /\ lastCall[ev[w].name].how = "rendered"
    /\ lastCall[ev[w].name].err = ErrWriteTarget(TargetFileName(ev[w].name))
    /\ lastCall[ev[w].name].out = loc[w].out
    /\ loc[w].cur > lastCall[ev[w].name].mtime

\* The call worker w is about to return from had its write of the artifact
\* fail.
WriteFailed(w) ==
    /\ pc[w] = "done"
    /\ workerCount = 1
    /\ loc[w].err = ErrWriteTarget(TargetFileName(ev[w].name))

EntersWithText(w) ==
    /\ Enters(w)
    /\ ~Has(ev'[w].op, "Remove")
    /\ HasSuffix(ev'[w].name, TxtSuffix)

\* C23: for an event that is not a removal and whose path ends in
\* _code.txt, HandleEvent changes no store and no input file, renders and
\* writes nothing, and returns at once: in dev mode (false, true, nil) with
\* the disk untouched; in production mode (false, false, nil), the file
\* being gone when os.Remove succeeded and the disk untouched when it
\* failed.
C23_TextArtifactEvent ==
    [][\A w \in Workers :
        EntersWithText(w) =>
            /\ pc'[w] = "done"
            /\ UNCHANGED <<stores, files, lastWritten, rendered>>
            /\ devMode => /\ res'[w] = Result(FALSE, TRUE, NoErr)
                          /\ UNCHANGED artifacts
            /\ ~devMode =>
                  /\ res'[w] = FalseFalseNil
                  /\ \/ /\ loc'[w].how = "txtprod"
                        /\ artifacts[ev'[w].name] # NoFile
                        /\ artifacts' = [artifacts EXCEPT ![ev'[w].name] = NoFile]
                     \/ /\ loc'[w].how = "txtprodfailed"
                        /\ UNCHANGED artifacts]_vars

\* A production-mode call for _code.txt whose os.Remove failed on a file
\* that exists, after a call that wrote the file.
C23_Witness ==
    \E w \in Workers :
        /\ Returned(w) /\ ~devMode
        /\ ev[w].name = TxtFile
        /\ loc[w].how = "txtprodfailed"
        /\ artifacts[TxtFile] = "t2"
        /\ res[w] = FalseFalseNil

\* ------------------------------------------ claims about write ordering
\* C24: no worker stands before the write of an artifact with bytes rendered
\* for a modtime older than the modtime of a call for the same path whose
\* write has already returned. Not kept: the write runs outside every lock,
\* after the modtime guard and UpsertHash have let a newer call through.
C24_PerPathOrdering ==
    \A w \in Workers :
        (/\ pc[w] = "write"
         /\ loc[w].phase = "code"
         /\ lastCall[ev[w].name].how = "rendered"
         /\ lastCall[ev[w].name].codeWrites = 1)
            => lastCall[ev[w].name].mtime <= loc[w].cur

\* No goroutine of the worker pool exists: no push goroutine, dispatch loop
\* or post-generation goroutine, no slot of the semaphore taken.
NoWorkerPool ==
    /\ push.pc = "off" /\ loop.pc = "off" /\ coord.pc = "off"
    /\ sem = 0 /\ eventsWG = 0
    /\ \A w \in Workers : goroutines[w] = NoGoroutine

\* No event was sent or handled and nothing was generated.
NothingHandled ==
    /\ log.sent = 0 /\ log.direct = <<>>
    /\ handlers = <<>>
    /\ \A k \in DOMAIN artifacts : artifacts[k] = NoFile

NumHandled == Cardinality({i \in 1..log.sent : log.handled[i] > 0})

\* C26: once the post-generation goroutine has drained postGeneration and
\* returned, it has received one GenerationEvent for every event a worker
\* handled. Not kept: a worker sends a GenerationEvent only when HandleEvent
\* reported an update, so an event that changed nothing, or failed, is never
\* reported to the post-generation goroutine.
C26_EventPerHandled == coord.pc = "done" => coord.updates = NumHandled

\* The GenerationEvent a worker builds for event e and result r.
GenerationEvent(e, r) == [Event |-> e, GoUpdated |-> r.goUpdated, TextUpdated |-> r.textUpdated]

\* Worker w returns from HandleEvent in this step.
CallReturns(w) == goroutines[w].pc = "call" /\ goroutines'[w].pc # "call"

\* C27: a worker whose call of HandleEvent reported an update appends one
\* GenerationEvent with the event and the two flags to postGeneration, a
\* worker whose call reported none leaves postGeneration alone; a call that
\* returns an error reports no update and sends nothing; every
\* GenerationEvent in the channel, hence every one the post-generation
\* goroutine receives, has a flag set.
C27_PushIffUpdated ==
    /\ [](\A i \in 1..Len(postGeneration) :
            postGeneration[i].GoUpdated \/ postGeneration[i].TextUpdated)
    /\ [][\A w \in Workers :
            CallReturns(w) =>
                LET r == goroutines'[w].res
                IN /\ (r.goUpdated \/ r.textUpdated) =>
                        postGeneration' =
                            Append(postGeneration, GenerationEvent(goroutines[w].event, r))
                   /\ ~(r.goUpdated \/ r.textUpdated) => postGeneration' = postGeneration
                   /\ r.err # NoErr => (~r.goUpdated /\ ~r.textUpdated)]_vars

\* Two events were handled: one call reported an update and its
\* GenerationEvent is in the channel, the other returned an error and its
\* worker, about to send the error, has sent no GenerationEvent.
C27_Witness ==
    /\ NumHandled = 2
    /\ Len(postGeneration) = 1 /\ coord.updates = 0
    /\ \E w \in Workers :
            /\ goroutines[w].pc = "sendErr"
            /\ goroutines[w].res = Result(FALSE, FALSE, goroutines[w].res.err)
            /\ postGeneration[1].Event # goroutines[w].event

\* What the post-generation goroutine has accumulated since the last settle.
Accumulated == coord.goUpdated \/ coord.textUpdated

\* C28: the settle count grows only in a step in which the 100 ms timer
\* fires while something is accumulated, by one, and that step clears the
\* accumulator; a timer that fires with nothing accumulated is parked and
\* settles nothing; a received GenerationEvent is added to the accumulator,
\* restarts the 100 ms timer and settles nothing. Hence GenerationEvents
\* received without a timer fire between them are covered by one settle, and
\* there are never more settles than received GenerationEvents.
C28_DebounceCoalescing ==
    /\ [](log.settles <= coord.updates)
    /\ [][
           /\ log.settles' # log.settles =>
                /\ coord.pc = "select" /\ coord.timer = "armed" /\ Accumulated
                /\ log.settles' = log.settles + 1
                /\ ~Accumulated'
                /\ coord'.timer = "armed"
                /\ postGeneration' = postGeneration
           /\ (coord.timer = "armed" /\ coord'.timer = "parked") =>
                /\ ~Accumulated /\ ~Accumulated'
                /\ log.settles' = log.settles
           /\ Len(postGeneration') < Len(postGeneration) =>
                /\ coord'.timer = "armed"
                /\ coord'.updates = coord.updates + 1
                /\ coord'.goUpdated = (coord.goUpdated \/ Head(postGeneration).GoUpdated)
                /\ coord'.textUpdated = (coord.textUpdated \/ Head(postGeneration).TextUpdated)
                /\ log.settles' = log.settles]_vars

\* Two GenerationEvents were received one after the other, one settle
\* covered both, and the timer then fired with nothing accumulated and was
\* parked.
C28_Witness ==
    /\ coord.pc = "select" /\ coord.timer = "parked"
    /\ coord.updates = 2 /\ log.settles = 1
    /\ ~Accumulated /\ postGeneration = <<>>

\* C29: when the push goroutine starts the production walk, nothing waits
\* for a settle: postGeneration is empty and the post-generation goroutine
\* has nothing accumulated. Not kept: postGenerationEventsWG is zero except
\* inside the settle step itself, so the push goroutine never waits for the
\* timer, see C14.
C29_SettleDrained == log.walks > 0 => ~log.unsettledAtWalk

\* The dispatch loop holds an event and waits for a slot of sem, all taken.
LoopBlocked == loop.pc = "acquire" /\ ~SemFree(sem)

\* C30: while every slot of sem is taken and the dispatch loop waits for
\* one, the walker can send its next file and the watcher a change it has
\* to report. Not kept: events is unbuffered and the dispatch loop is its
\* only receiver, so while the loop waits for a slot every send on events
\* waits with it.
C30_BackpressureConfined ==
    LoopBlocked =>
        /\ (Walking /\ push.pos <= Len(Tree)) => ENABLED WalkSend
        /\ \A n \in TreeFiles :
                (watcher.state = "open" /\ n \in watcher.pending) => ENABLED WatchSend(n)

\* C31: a call of HandleEvent whose render succeeded returns goUpdated true
\* exactly when it wrote the target file and textUpdated true exactly when it
\* wrote the text file. Not kept: generate returns false, false with the
\* error of a failed write, so a call that wrote the target file and then
\* failed to write the text file reports no update of the code, and a call
\* whose target write failed never reaches the text file.
C31_FlagsMatchWrites ==
    \A w \in Workers :
        (pc[w] = "done" /\ loc[w].how = "rendered" /\ loc[w].out # NoBytes) =>
            /\ res[w].goUpdated <=> "code" \in loc[w].wrote
            /\ res[w].textUpdated <=> "txt" \in loc[w].wrote

\* C32: a call that has read the modification time of its path goes on to
\* generate exactly when that time is after the stored one, whether or not
\* the path is in the error registry; otherwise it returns (false, false,
\* nil) without rendering and leaves the registry as it is. A call that
\* reaches generate and can read the file invokes the renderer. With one
\* worker at a time: after a failed attempt for a path, a call that observed
\* a newer time made a new attempt, and a call that did not returned
\* (false, false, nil) with the path still in the registry.
C32_RetryPolicy ==
    /\ [][\A w \in Workers :
            (pc[w] = "modSet" /\ pc'[w] # "modSet") =>
                LET newer == loc[w].cur >
                                Lookup(fileNameToLastModTime, ev[w].name, ZeroTime)
                IN /\ newer <=> pc'[w] = "generate"
                   /\ ~newer =>
                        /\ pc'[w] = "done" /\ res'[w] = FalseFalseNil
                        /\ rendered' = rendered
                        /\ fileNameToError' = fileNameToError]_vars
    /\ [][\A w \in Workers :
            (pc[w] = "generate" /\ pc'[w] # "generate" /\ files[ev[w].name].exists)
                => <<ev[w].name, loc[w].cur>> \in rendered']_vars
    /\ [](workerCount = 1 =>
            \A w \in Workers :
                (/\ Returned(w) /\ ev[w].name \in InputFiles
                 /\ lastCall[ev[w].name].how # "none" /\ ~lastCall[ev[w].name].ok) =>
                    IF loc[w].cur > lastCall[ev[w].name].mtime
                    THEN PassedGuard(w)
                    ELSE /\ loc[w].how \in {"stale", "statfail"}
                         /\ res[w] = FalseFalseNil
                         /\ ev[w].name \in fileNameToError
                         /\ \A t \in Times(limit.edits) :
                                <<ev[w].name, t>> \in rendered => t <= lastCall[ev[w].name].mtime)

\* With one worker at a time, an attempt for a path failed, the file was
\* touched, and the next event for the path rendered it again, and failed
\* again.
C32_Witness ==
    \E w \in Workers :
        /\ workerCount = 1 /\ Returned(w) /\ loc[w].how = "rendered"
        /\ loc[w].hasError /\ loc[w].previouslyHadError
        /\ lastCall[ev[w].name].how = "rendered" /\ ~lastCall[ev[w].name].ok
        /\ loc[w].cur > lastCall[ev[w].name].mtime
        /\ <<ev[w].name, loc[w].cur>> \in rendered

\* The events the dispatch loop and the workers hold.
InFlight ==
    ({loop.event} \cup {goroutines[w].event : w \in Workers}) \ {NoRunEvent}

\* C33: the watcher is created only in a watch-mode run and only by the
\* push goroutine whose first walk has sent every file of the tree, so every
\* event of the watcher is sent after all events of the first walk; in a run
\* without -watch no watcher exists, nothing but the files of the one walk is
\* sent, and the push goroutine returns, closing events, in the step after
\* the walk.
C33_WatchOrdering ==
    /\ [](watcher.state # "none" =>
            /\ watch /\ push.pc # "walk1"
            /\ log.sent >= Len(Tree))
    /\ [](\A e \in InFlight : e.src = "watch" => watch /\ e.id > Len(Tree))
    /\ [][(watcher.state = "none" /\ watcher'.state # "none") =>
            /\ push.pc = "walk1" /\ push.pos > Len(Tree)
            /\ log.sent = Len(Tree)
            /\ watcher'.pending = {}]_vars
    /\ [](~watch =>
            /\ watcher = [state |-> "none", pending |-> {}]
            /\ push.pc \in {"walk1", "fatal", "done"}
            /\ log.walks = 0 /\ log.sent <= Len(Tree)
            /\ \A e \in InFlight : e.src = "walk1")
    /\ [][(~watch /\ push.pc = "walk1" /\ push.pos > Len(Tree) /\ push' # push) =>
            push'.pc = "done"]_vars

\* In a watch-mode run the dispatch loop holds the first event of the
\* watcher, sent after the one event of the first walk.
C33_Witness ==
    /\ watch /\ watcher.state = "open"
    /\ loop.event.src = "watch" /\ loop.event.id = Len(Tree) + 1
    /\ log.sent = Len(Tree) + 1

\* The places (0-based) at which the marker occurs in name.
Occurrences(name) ==
    {i \in 0..(Len(name) - Len(DotCodeDot)) :
        SubSeq(name, i + 1, i + Len(DotCodeDot)) = DotCodeDot}
\* The last occurrence of the marker in name is followed by a character.
LastMarkerFollowed(name) ==
    \E i \in Occurrences(name) :
        /\ \A j \in Occurrences(name) : j <= i
        /\ Len(name) >= i + Len(DotCodeDot) + 1
\* The extension of name, the part after its last ".", is not empty.
HasExtension(name) == name # <<>> /\ name[Len(name)] # "."

\* C34: HandleEvent treats a path as an input exactly when the last
\* occurrence of ".code." in it is followed by at least one character, which
\* is when the path contains ".code." and does not end with it; so a path
\* that contains ".code.", at any place and any number of times, and has a
\* non-empty extension is an input. The step that applies the filter changes
\* no store and no file.
C34_PathFilter ==
    /\ [](\A w \in Workers :
            pc[w] # "idle" =>
                LET name == ev[w].name
                IN /\ ContainsDotCodeDot(name) <=> LastMarkerFollowed(name)
                   /\ IsCodeFile(name) <=> LastMarkerFollowed(name)
                   /\ ContainsDotCodeDot(name) <=>
                        (Occurrences(name) # {} /\ ~HasSuffix(name, DotCodeDot))
                   /\ (Occurrences(name) # {} /\ HasExtension(name)) =>
                        ContainsDotCodeDot(name)
                   /\ ~HasSuffix(name, TxtSuffix) =>
                        (loc[w].how = "irrelevant" <=> ~LastMarkerFollowed(name)))
    /\ [][\A w \in Workers :
            Enters(w) => UNCHANGED <<stores, disk, lastWritten, rendered>>]_vars

\* HandleEvent has taken ".code..code.go", which holds the marker twice, for
\* an input and rendered it.
C34_Witness ==
    \E w \in Workers :
        /\ ev[w].name = DotCodeDot \o DotCodeDot \o <<"g", "o">>
        /\ Cardinality(Occurrences(ev[w].name)) = 2
        /\ loc[w].how = "rendered"

\* defer close(events): the push goroutine has returned.
EventsClosed == push.pc = "done"
\* defer close(postGeneration): the dispatch loop has returned.
PostGenerationClosed == loop.pc = "done"
\* defer close(errs): the post-generation goroutine has returned.
ErrsClosed == coord.pc = "done"
\* Worker w has a send on errs or on postGeneration still before it.
MaySend(w) == goroutines[w].pc \in {"call", "sendErr"}

\* C35: No value is sent on a closed channel. Once events is closed neither
\* the walk nor the watcher sends on it; once postGeneration is closed no
\* worker has a send before it; once errs is closed no worker and no fatal
\* error of the push goroutine has a send before it; and every step that
\* sends on a channel finds it open and leaves it open.
C35_ChannelDiscipline ==
    /\ [](EventsClosed => ~Walking /\ watcher.state # "open")
    /\ [](PostGenerationClosed => \A w \in Workers : ~MaySend(w))
    /\ [](ErrsClosed => /\ \A w \in Workers : ~MaySend(w)
                        /\ EventsClosed)
    /\ [][log'.sent > log.sent => ~EventsClosed /\ ~EventsClosed']_vars
    /\ [][Len(postGeneration') > Len(postGeneration) =>
            ~PostGenerationClosed /\ ~PostGenerationClosed']_vars
    /\ [][(\/ \E w \in Workers : goroutines[w].pc = "sendErr" /\ goroutines'[w].pc # "sendErr"
           \/ push.pc = "fatal" /\ push'.pc # "fatal") =>
            ~ErrsClosed /\ ~ErrsClosed']_vars

\* The three channels are closed after the watcher sent an event, a worker
\* sent an error and another sent its result.
C35_Witness ==
    /\ EventsClosed /\ PostGenerationClosed /\ ErrsClosed
    /\ log.walks > 0
    /\ log.early + log.late > 0
    /\ coord.updates > 0
    /\ \E i \in DOMAIN log.handled : log.handled[i] > 0

\* No call of HandleEvent is under way.
Quiescent == \A w \in Workers : pc[w] \in {"idle", "done"}
\* Every call made so far has just returned, and none returned an error: no
\* write has failed.
NoWriteFailed ==
    /\ calls = Cardinality({w \in Workers : pc[w] = "done"})
    /\ \A w \in Workers : pc[w] = "done" => ~loc[w].hasError

\* C36 (as claimed): when no call is under way and no write has failed, every
\* artifact that was written holds bytes whose digest is the one in the hash
\* store. Not kept: two workers that handle events for one path pass
\* UpsertHash in one order and write in the other.
C36_StoreDiskAgreement ==
    (Quiescent /\ NoWriteFailed) =>
        \A k \in ArtifactKeys :
            lastWritten[k].last # NoBytes =>
                Lookup(hashes, k, ZeroHash) = Sum256(lastWritten[k].last)

\* The production handler, once fseh has been assigned it.
ProductionHandler == 2
\* The step changes handler h: HandleEvent ran on h and stored a modtime, a
\* digest or an error.
Touches(h) == h \in DOMAIN handlers /\ handlers'[h] # handlers[h]

\* C37 (as claimed): an event of the production walk is handled by the
\* production handler, which has interactive mode off and was created with
\* empty stores, and not by the handler of the watch phase; an event the
\* watcher delivered is never handled by the production handler. Not kept:
\* an event received before eventsWG.Wait() returned can reach its worker
\* after fseh was assigned.
C37_HandlerIsolation ==
    /\ [](Len(handlers) >= ProductionHandler => ~handlers[ProductionHandler].DevMode)
    /\ [][push.pc = "replace" /\ push'.pc # "replace" =>
            handlers'[ProductionHandler] = NewFSEventHandler(FALSE)]_vars
    /\ [][\A w \in Workers :
            (CallReturns(w) /\ goroutines[w].event.src = "walk2") =>
                ~Touches(1)]_vars
    /\ [][\A w \in Workers :
            (CallReturns(w) /\ goroutines[w].event.src = "watch") =>
                ~Touches(ProductionHandler)]_vars

\* Worker w handles a Remove event for an input file.
RemovesInput(w) == Has(ev[w].op, "Remove") /\ ContainsDotCodeDot(ev[w].name)
\* Worker w's os.Stat runs in this step and finds no file.
StatFails(w) == pc[w] = "stat" /\ pc'[w] # "stat" /\ ~files[ev[w].name].exists

\* C38: a call of HandleEvent with a Remove event for an input file that is
\* gone consists of the entry and the failed os.Stat; neither step changes
\* the modtime store, the hash store or the error registry (a path in the
\* registry stays in it), neither deletes or rewrites an artifact or a
\* source file, and the call returns (false, false, nil) without a render.
C38_RemoveInput ==
    /\ [][\A w \in Workers :
            (Enters(w) /\ Has(ev'[w].op, "Remove") /\ ContainsDotCodeDot(ev'[w].name)) =>
                /\ pc'[w] = "stat"
                /\ UNCHANGED <<stores, disk, lastWritten, rendered>>]_vars
    /\ [][\A w \in Workers :
            (RemovesInput(w) /\ StatFails(w)) =>
                /\ pc'[w] = "done"
                /\ res'[w] = FalseFalseNil
                /\ loc'[w].wrote = {} /\ ~loc'[w].hasError
                /\ UNCHANGED <<stores, disk, lastWritten, rendered>>]_vars

\* A Remove event for a removed input has been handled: the artifact written
\* for it before is still on disk, its digest is still in the hash store,
\* and the path, whose last generation failed, is still in the registry.
C38_Witness ==
    \E w \in Workers :
        /\ Returned(w) /\ RemovesInput(w) /\ loc[w].how = "statfail"
        /\ ~files[ev[w].name].exists
        /\ artifacts[TargetFileName(ev[w].name)] # NoFile
        /\ TargetFileName(ev[w].name) \in DOMAIN hashes
        /\ ev[w].name \in fileNameToError

\* The file named with -f is not there, or its name is not that of an input.
MissingOrUnmarked(name) ==
    \/ ~ContainsDotCodeDot(name)
    \/ name \in DOMAIN files /\ ~files[name].exists

\* C39: Run called without -watch for a single file that does not exist, or
\* whose name is not that of an input, returns nil after one call of
\* HandleEvent in which neither the renderer nor the writer ran; the stores
\* of the handler stay empty and no artifact is written.
C39_SingleFileSkipped ==
    (main.pc = "returned" /\ ~watch /\ args.FileName # <<>>
        /\ MissingOrUnmarked(args.FileName)) =>
            /\ main.err = NoErr
            /\ Len(log.direct) = 1
            /\ log.direct[1].event.name = args.FileName
            /\ ~log.direct[1].rendered
            /\ log.direct[1].wrote = {}
            /\ log.direct[1].res = FalseFalseNil
            /\ handlers = <<NewFSEventHandler(FALSE)>>
            /\ \A k \in DOMAIN artifacts : artifacts[k] = NoFile

\* Run has returned nil for -f a.code.go, a file that does not exist.
C39_Witness ==
    /\ main.pc = "returned" /\ ~watch
    /\ args.FileName = InputA /\ ~files[InputA].exists
    /\ Len(log.direct) = 1 /\ ~log.direct[1].rendered
    /\ main.err = NoErr

====
